---- MODULE Spec2Model ----
(***************************************************************************)
(* Model of the IMDb scraping pipeline of webscrapping/: the primary       *)
(* store writer and the resumable run of class_movies_series.py, the       *)
(* people store writer of people_functions.py, and the politeness          *)
(* scheduler polite_request_pause.                                         *)
(*                                                                         *)
(* A store file is a sequence of tokens.  A token is a record with the     *)
(* fields t (kind), key (imdb id of a record, 0 = none), id (numeric part  *)
(* of _id) and end (last character of a torn fragment).                    *)
(***************************************************************************)
EXTENDS Integers, Sequences, FiniteSets, TLC

\* ---- bounds ----
NumKeys == 2
MaxCand == 2
MaxRuns == 2

MaxPeople == 16
MaxMentions == 17
MaxPRuns == 2
NumThreads == 2
MaxCalls == 41
MaxCredits == 1
MaxMerges == 2
MaxItems == 2
MaxCacheRuns == 2
MaxWriteCalls == 3
MaxTokens == 4
MaxWhole == 33
MaxEpisodePages == 2
MaxFailures == 1
MaxContributors == 16
MaxResumeRuns == 2
MaxSeasons == 31

\* ---- program constants ----
MaxWorkers == 8
PEOPLE_SAVE_BATCH_SIZE == 15
\* times are counted in half seconds
REQUEST_DELAY_MIN == 3
REQUEST_DELAY_MAX == 6
REQUEST_COOLDOWN_EVERY == 40
REQUEST_COOLDOWN_MIN == 16
REQUEST_COOLDOWN_MAX == 30
FETCH_ATTEMPTS == 5

VARIABLES
    records,               \* candidate rows of the source CSV (raw imdbId values)
    file,                  \* content of data/movies_data.json
    pc,                    \* position of the class_movies_series module script
    first_persisted_item,
    existing_records,
    existing_ids,
    existing_numeric_ids,
    load_error,            \* the except branch of the startup load was taken
    movies_to_process,
    job,                   \* state of each submitted task of the executor
    processed_tasks,
    new_movies_saved,
    next_numeric_id,
    runs,                  \* number of processes started so far
    written,               \* history: records written since the last initialize_output
    torn,                  \* history: a write was cut short since the last initialize_output
    repaired,              \* history: the startup repair of this process changed the file
    at_start,              \* history: records the repaired store held when this process started
    prev_completed,        \* history: the previous process ended normally
    prev_failed,           \* history: tasks of the last finished run whose fetch failed
    completed_order,       \* history of the running pool: tasks in the order their workers finished
    delivered_order,       \* history of the running pool: tasks in the order the consumer received them
    in_flight,             \* history: tasks that were executing when the result loop was left by an exception
    max_assigned,          \* history: the highest numeric _id given to a record by any process
    \* -- people store (class_people.py, people_functions.py) --
    people_file,           \* content of data/people_data.json
    ppc,                   \* position of extract_people_from_movies_json
    people_map,            \* imdb_name_id -> numeric part of the person's _id
    people_first_item,
    people_load_error,     \* load_existing_people took its "Ignoring content" branch
    next_person_id,
    pending_flush_names,   \* number of names queued for the next snapshot
    snap_todo,             \* write_people_snapshot: sorted people not yet handed to persist_people
    snap_phase,            \* which call of write_people_snapshot is running
    mentions,              \* people mentions merged by this process
    pruns,                 \* number of people processes started so far
    people_written,        \* history: records written since the last initialize_people_output
    \* -- politeness scheduler (polite_request_pause) --
    request_lock,          \* 0 when free, else the thread holding it
    since_last,            \* perf_counter() - last_request_ts, saturating at REQUEST_DELAY_MAX
    request_counter,
    tpc,                   \* position of each thread inside polite_request_pause
    wait_seconds,          \* remaining time of each thread's current sleep
    cooldown,              \* each thread's local cooldown, 0 for None
    loaded_counter,        \* each thread's read of request_counter for the increment
    calls,                 \* number of calls of polite_request_pause started
    reservations,          \* history: number of assignments of last_request_ts
    last_gap,              \* history: time between the two latest assignments of last_request_ts,
                           \* saturating at REQUEST_DELAY_MIN
    due,                   \* history: the thread's latest reservation was a REQUEST_COOLDOWN_EVERY-th one
    slept,                 \* history: the thread slept a cooldown in its latest call
    \* -- fetcher (MovieImdb.get_content, soup) --
    fetch_pc,              \* position inside the retry loop
    attempt,               \* loop variable of for attempt in range(5)
    response_page,         \* the latest response: status code and what its html holds
    backoff,               \* which sleep follows the latest response
    classes,               \* history: how each response of this fetch was classified
    \* -- merge_person_entry --
    target,                \* the person entry merged into
    incoming,              \* the person payload merged from
    x0,                    \* history: target before the first merge
    merges,                \* history: number of calls of merge_person_entry made
    \* -- one person of people_map (class_people.py, lines 161-244) --
    entry,                 \* people_map.get(nm)
    stored,                \* the record of nm in data/people_data.json
    epc,                   \* position of the extractor
    pending,               \* pending_flush_names is not empty
    offered,               \* history: this process was offered another value for a filled name
    \* -- build_rows_to_process --
    items,                 \* rows of the movies dataset
    processed_movies,
    start_movie_index,     \* -1 for None
    end_movie_index,       \* -1 for None
    start_movie_id,        \* "" for None
    end_movie_id,          \* "" for None
    rows_to_process,       \* the returned rows; pos is the row's 1-based place in items
    rpc,                   \* "call" before build_rows_to_process has run, "returned" after
    \* -- collect_title_payloads and the title cache --
    cache_file,            \* the title cache on disk: state "absent", "written" or "torn", and its titles
    title_cache,           \* the cache in memory: title key -> the payload kept for it
    futures,               \* title key -> "none", "pending", a finished result, or "consumed"
    titles_payload,        \* keys of the payloads collected by this call
    title_errors,          \* keys reported in title_errors by this call
    cpc,                   \* "idle", "pool", "returned"
    cruns,                 \* calls made so far
    entry_written,         \* history: keys whose consumed result was persisted
    \* -- concurrent callers of persist_movies / finalize_output --
    persist_lock,          \* 0 when free, else the thread holding it
    wpc,                   \* per thread: position inside persist_movies or finalize_output
    wbuffer,               \* per thread: the records of its buffer not yet written
    first_branch,          \* per thread: the outcome of its test of first_persisted_item
    wcalls,                \* calls made so far
    \* -- ensure_json_array_closed applied to an arbitrary file --
    content0,              \* history: the file before the first repair
    repairs,               \* repairs applied so far
    \* -- parse_count --
    text,                  \* the argument, a sequence of characters
    parsed,                \* the value returned, None for None
    count_pc,              \* "call" before parse_count has run, "returned" after
    \* -- one scraping job (MovieImdb.__init__) --
    job_pc,                \* "idle", "fetch", "extract" or "done"
    extractor,             \* index of the statement of the try block to run next
    job_attempt,           \* loop variable of get_content
    events,                \* history: pauses taken and requests issued, in order
    got,                   \* attribute keys whose extractor gave a value
    attributes,            \* self.attributes once set: key -> "value" or "none"
    failed,                \* history: extractors in which an error was caught by their own handler
    raised_in,             \* history: the extractor out of which an error propagated, 0 for none
    \* -- resumption of the people stage (class_people.py, lines 60-255) --
    res_pc,                \* "idle", "merge" or "done"
    res_items,             \* the movies of the input file: _id -> contributors of the title payload
    res_file,              \* people of data/people_data.json: records [nm, movie]
    res_map,               \* people_map: records [nm, movie]
    res_rows,              \* movies of rows_to_process not yet merged, in order
    res_next,              \* number of contributors of Head(res_rows) already merged
    res_pending,           \* Len(pending_flush_names)
    res_runs,              \* number of runs started
    res_partial,           \* history: titles a kill left with some but not all contributors on disk
    \* -- season probing (MovieImdb.get_total_seasons, lines 1152-1163) --
    probe_pc,              \* "idle", "loop", "break" or "returned"
    has_episodes,          \* the seasons whose episodes page lists episodes
    season,                \* loop variable s
    last_with_eps,
    consecutive_empty,
    probed,                \* history: the seasons requested, in order
    total_seasons          \* the value returned, None for None

storeVars == <<records, file, pc, first_persisted_item, existing_records,
               existing_ids, existing_numeric_ids, load_error, movies_to_process,
               job, processed_tasks, new_movies_saved, next_numeric_id, runs,
               written, torn, repaired, at_start, prev_completed, prev_failed, completed_order,
               delivered_order, in_flight, max_assigned>>

peopleVars == <<people_file, ppc, people_map, people_first_item, people_load_error,
                next_person_id, pending_flush_names, snap_todo, snap_phase, mentions,
                pruns, people_written>>

pauseVars == <<request_lock, since_last, request_counter, tpc, wait_seconds, cooldown,
               loaded_counter, calls, reservations, last_gap, due, slept>>

fetchVars == <<fetch_pc, attempt, response_page, backoff, classes>>

mergeVars == <<target, incoming, x0, merges>>

entryVars == <<entry, stored, epc, pending, offered>>

rowsVars == <<items, processed_movies, start_movie_index, end_movie_index,
              start_movie_id, end_movie_id, rows_to_process, rpc>>

cacheVars == <<cache_file, title_cache, futures, titles_payload, title_errors, cpc, cruns,
               entry_written>>

\* the variables of the stages modelled after build_rows_to_process
writeVars == <<persist_lock, wpc, wbuffer, first_branch, wcalls>>

repairVars == <<content0, repairs>>

countVars == <<text, parsed, count_pc>>

jobVars == <<job_pc, extractor, job_attempt, events, got, attributes, failed, raised_in>>

resumeVars == <<res_pc, res_items, res_file, res_map, res_rows, res_next, res_pending,
                res_runs, res_partial>>

probeVars == <<probe_pc, has_episodes, season, last_with_eps, consecutive_empty, probed,
               total_seasons>>

laterVars == <<countVars, jobVars, resumeVars, probeVars>>

otherVars == <<cacheVars, writeVars, repairVars, laterVars>>

\* the store variables the writer functions do not touch
storeOther == <<records, pc, existing_records, existing_ids, existing_numeric_ids,
                load_error, movies_to_process, job, processed_tasks, new_movies_saved,
                next_numeric_id, runs, torn, repaired, at_start, prev_completed,
                prev_failed, completed_order, delivered_order, in_flight, max_assigned>>

coreVars == <<storeVars, peopleVars, pauseVars, fetchVars, mergeVars, entryVars, rowsVars>>

vars == <<storeVars, peopleVars, pauseVars, fetchVars, mergeVars, entryVars, rowsVars, otherVars>>

\* what the scraping script, the people extractor and the scheduler leave alone
nonStoreVars == <<peopleVars, pauseVars, fetchVars, mergeVars, entryVars, rowsVars, otherVars>>
nonPeopleVars == <<storeVars, pauseVars, fetchVars, mergeVars, entryVars, rowsVars, otherVars>>
nonPauseVars == <<storeVars, peopleVars, fetchVars, mergeVars, entryVars, rowsVars, otherVars>>

\* ---- tokens of a store file ----
Tok(t) == [t |-> t, key |-> 0, id |-> 0, end |-> ""]

\* json.dumps(record, indent=4) re-indented: one object token
Serialize(rec) == [t |-> "obj", key |-> rec.imdb_id, id |-> rec._id, end |-> "}"]

\* a record cut short by an interrupted write; e is its last character
TornTok(e) == [t |-> "torn", key |-> 0, id |-> 0, end |-> e]

Last(s) == s[Len(s)]

RECURSIVE rstrip(_)
rstrip(content) ==
    IF content = <<>> THEN <<>>
    ELSE IF Last(content).t = "nl" THEN rstrip(SubSeq(content, 1, Len(content) - 1))
    ELSE content

LastChar(tok) ==
    CASE tok.t = "lb" -> "["
      [] tok.t = "rb" -> "]"
      [] tok.t = "lbrace" -> "{"
      [] tok.t = "rbrace" -> "}"
      [] tok.t = "comma" -> ","
      [] OTHER -> tok.end

endswith(stripped, ch) == stripped # <<>> /\ LastChar(Last(stripped)) = ch

initialize_output == <<Tok("lb"), Tok("nl")>>

RECURSIVE persist_movies(_, _, _)
persist_movies(buffer, content, first) ==
    IF buffer = <<>> THEN [content |-> content, first |-> first]
    ELSE LET indented == Serialize(Head(buffer)) IN
         IF first
         THEN persist_movies(Tail(buffer), Append(content, indented), FALSE)
         ELSE persist_movies(Tail(buffer),
                             content \o <<Tok("comma"), Tok("nl"), indented>>, FALSE)

\* mutant: the closing delimiter is written by the loop and again by the finally block
finalize_output_Twice(content) ==
    content \o <<Tok("nl"), Tok("rb"), Tok("nl"), Tok("nl"), Tok("rb"), Tok("nl")>>

finalize_output(content) == content \o <<Tok("nl"), Tok("rb"), Tok("nl")>>

\* mutant: the closing bracket is appended without looking at the last character
ensure_json_array_closed_NoCheck(content) ==
    LET stripped == rstrip(content) IN
    IF stripped = <<>> THEN content
    ELSE stripped \o <<Tok("nl"), Tok("rb"), Tok("nl")>>

ensure_json_array_closed(content) ==
    LET stripped == rstrip(content) IN
    IF stripped = <<>> THEN content
    ELSE IF endswith(stripped, "]") THEN content
    ELSE stripped \o <<Tok("nl"), Tok("rb"), Tok("nl")>>

\* ---- json.loads of an array document ----
NoWS(content) == SelectSeq(content, LAMBDA tok : tok.t # "nl")

Parsed(tok) == [imdb_id |-> tok.key, _id |-> tok.id]

\* body is the token sequence between the brackets
ItemsOK(body) ==
    \/ body = <<>>
    \/ /\ Len(body) % 2 = 1
       /\ \A i \in 1..Len(body) :
            IF i % 2 = 1 THEN body[i].t = "obj" ELSE body[i].t = "comma"

Items(body) == [i \in 1..((Len(body) + 1) \div 2) |-> Parsed(body[2 * i - 1])]

json_loads_array(content) ==
    LET s == NoWS(content) IN
    IF /\ Len(s) >= 2
       /\ s[1].t = "lb"
       /\ s[Len(s)].t = "rb"
       /\ ItemsOK(SubSeq(s, 2, Len(s) - 1))
    THEN [ok |-> TRUE, value |-> Items(SubSeq(s, 2, Len(s) - 1))]
    ELSE [ok |-> FALSE, value |-> <<>>]

\* the complete records a file holds, whatever its state
StoreRecords(content) ==
    LET objs == SelectSeq(content, LAMBDA tok : tok.t = "obj") IN
    [i \in 1..Len(objs) |-> Parsed(objs[i])]

Range(s) == {s[i] : i \in 1..Len(s)}

Max(S) == CHOOSE x \in S : \A y \in S : y <= x

Min(a, b) == IF a < b THEN a ELSE b

\* ---- candidate rows ----
\* raw imdbId: 0 is an empty/NaN cell, k in 1..NumKeys the integer k,
\* NumKeys + k the string "tt000000k"
RawIds == 0..(2 * NumKeys)

parse_imdb_numeric(value) ==
    IF value = 0 THEN 0
    ELSE IF value > NumKeys THEN value - NumKeys
    ELSE value

CandidateLists == UNION {[1..n -> RawIds] : n \in 0..MaxCand}

\* ---- planning loop ----
\* mutant: the persisted keys are not consulted
RECURSIVE PlanFrom_IgnorePersisted(_, _, _, _, _)
PlanFrom_IgnorePersisted(rows, idx, persisted, scheduled_ids, acc) ==
    IF idx > Len(rows) THEN acc
    ELSE LET imdb_numeric == parse_imdb_numeric(rows[idx]) IN
         IF imdb_numeric = 0 \/ imdb_numeric \in scheduled_ids
         THEN PlanFrom_IgnorePersisted(rows, idx + 1, persisted, scheduled_ids, acc)
         ELSE PlanFrom_IgnorePersisted(rows, idx + 1, persisted,
                                       scheduled_ids \cup {imdb_numeric},
                                       Append(acc, <<idx, imdb_numeric>>))

\* mutant: keys scheduled earlier in the same pass are not remembered
RECURSIVE PlanFrom_NoScheduled(_, _, _, _, _)
PlanFrom_NoScheduled(rows, idx, persisted, scheduled_ids, acc) ==
    IF idx > Len(rows) THEN acc
    ELSE LET imdb_numeric == parse_imdb_numeric(rows[idx]) IN
         IF imdb_numeric = 0 \/ imdb_numeric \in persisted
         THEN PlanFrom_NoScheduled(rows, idx + 1, persisted, scheduled_ids, acc)
         ELSE PlanFrom_NoScheduled(rows, idx + 1, persisted, scheduled_ids,
                                   Append(acc, <<idx, imdb_numeric>>))

RECURSIVE PlanFrom(_, _, _, _, _)
PlanFrom(rows, idx, persisted, scheduled_ids, acc) ==
    IF idx > Len(rows) THEN acc
    ELSE LET imdb_numeric == parse_imdb_numeric(rows[idx]) IN
         IF imdb_numeric = 0
         THEN PlanFrom(rows, idx + 1, persisted, scheduled_ids, acc)
         ELSE IF imdb_numeric \in persisted \/ imdb_numeric \in scheduled_ids
         THEN PlanFrom(rows, idx + 1, persisted, scheduled_ids, acc)
         ELSE PlanFrom(rows, idx + 1, persisted, scheduled_ids \cup {imdb_numeric},
                       Append(acc, <<idx, imdb_numeric>>))

\* the tasks whose worker returned the stub attributes, in submission order
FailedTasks(tasks, jobs) ==
    LET idxs == SelectSeq([i \in 1..Len(tasks) |-> i], LAMBDA i : jobs[i] = "fail") IN
    [k \in 1..Len(idxs) |-> tasks[idxs[k]]]

\* ---- in-memory state of a fresh process ----
FreshMemory ==
    /\ first_persisted_item' = TRUE
    /\ existing_records' = <<>>
    /\ existing_ids' = {}
    /\ existing_numeric_ids' = {}
    /\ load_error' = FALSE
    /\ movies_to_process' = <<>>
    /\ job' = <<>>
    /\ processed_tasks' = 0
    /\ new_movies_saved' = 0
    /\ next_numeric_id' = 1

\* the in-memory state before the first run, whatever the store file holds
FreshProcess ==
    /\ pc = "idle"
    /\ first_persisted_item = TRUE
    /\ existing_records = <<>>
    /\ existing_ids = {}
    /\ existing_numeric_ids = {}
    /\ load_error = FALSE
    /\ movies_to_process = <<>>
    /\ job = <<>>
    /\ processed_tasks = 0
    /\ new_movies_saved = 0
    /\ next_numeric_id = 1
    /\ runs = 0
    /\ written = <<>>
    /\ torn = FALSE
    /\ repaired = FALSE
    /\ at_start = {}
    /\ prev_completed = FALSE
    /\ prev_failed = <<>>
    /\ completed_order = <<>>
    /\ delivered_order = <<>>
    /\ in_flight = {}
    /\ max_assigned = 0

StoreInit ==
    /\ file = <<>>
    /\ FreshProcess

Threads == 1..NumThreads

PeopleInit ==
    /\ people_file = <<>>
    /\ ppc = "idle"
    /\ people_map = {}
    /\ people_first_item = TRUE
    /\ people_load_error = FALSE
    /\ next_person_id = 1
    /\ pending_flush_names = 0
    /\ snap_todo = <<>>
    /\ snap_phase = "none"
    /\ mentions = 0
    /\ pruns = 0
    /\ people_written = <<>>

PauseInit ==
    /\ request_lock = 0
    /\ request_counter = 0
    /\ tpc = [t \in Threads |-> "idle"]
    /\ wait_seconds = [t \in Threads |-> 0]
    /\ cooldown = [t \in Threads |-> 0]
    /\ loaded_counter = [t \in Threads |-> 0]
    /\ calls = 0
    /\ reservations = 0
    /\ last_gap = REQUEST_DELAY_MIN
    /\ due = [t \in Threads |-> FALSE]
    /\ slept = [t \in Threads |-> FALSE]

\* no response has been received yet
NoResponse == [status_code |-> 0, captcha |-> FALSE, blocked |-> FALSE, long |-> FALSE]

FetchInit ==
    /\ fetch_pc = "loop"
    /\ attempt = 0
    /\ response_page = NoResponse
    /\ backoff = "none"
    /\ classes = <<>>

\* a person entry with no data
EmptyEntry == [name |-> 0, role |-> <<>>, movie |-> <<>>]

MergeInit ==
    /\ target = EmptyEntry
    /\ incoming = EmptyEntry
    /\ x0 = EmptyEntry
    /\ merges = 0

\* no entry for the person
NoEntry == [present |-> FALSE, name |-> 0, biography |-> 0, role |-> <<>>, movie |-> <<>>]

EntryInit ==
    /\ entry = NoEntry
    /\ stored = NoEntry
    /\ epc = "idle"
    /\ pending = FALSE
    /\ offered = FALSE

RowsInit ==
    /\ items = <<>>
    /\ processed_movies = {}
    /\ start_movie_index = 0 - 1
    /\ end_movie_index = 0 - 1
    /\ start_movie_id = ""
    /\ end_movie_id = ""
    /\ rows_to_process = <<>>
    /\ rpc = "idle"

Titles == {"tt0000001", "tt0000002"}

AbsentFile == [state |-> "absent", titles |-> <<>>]

CacheMemoryInit ==
    /\ title_cache = <<>>
    /\ futures = [k \in Titles |-> "none"]
    /\ titles_payload = {}
    /\ title_errors = {}
    /\ cpc = "idle"

CacheInit ==
    /\ cache_file = AbsentFile
    /\ CacheMemoryInit
    /\ cruns = 0
    /\ entry_written = {}

WriteInit ==
    /\ persist_lock = 0
    /\ wpc = [t \in Threads |-> "idle"]
    /\ wbuffer = [t \in Threads |-> <<>>]
    /\ first_branch = [t \in Threads |-> FALSE]
    /\ wcalls = 0

RepairInit ==
    /\ content0 = <<>>
    /\ repairs = 0

CountInit ==
    /\ text = <<>>
    /\ parsed = 0 - 1
    /\ count_pc = "idle"

JobInit ==
    /\ job_pc = "idle"
    /\ extractor = 1
    /\ job_attempt = 0
    /\ events = <<>>
    /\ got = {}
    /\ attributes = <<>>
    /\ failed = {}
    /\ raised_in = 0

ResumeInit ==
    /\ res_pc = "idle"
    /\ res_items = <<>>
    /\ res_file = {}
    /\ res_map = {}
    /\ res_rows = <<>>
    /\ res_next = 0
    /\ res_pending = 0
    /\ res_runs = 0
    /\ res_partial = {}

ProbeInit ==
    /\ probe_pc = "idle"
    /\ has_episodes = {}
    /\ season = 1
    /\ last_with_eps = 0
    /\ consecutive_empty = 0
    /\ probed = <<>>
    /\ total_seasons = 0 - 1

LaterInit ==
    /\ CountInit
    /\ JobInit
    /\ ResumeInit
    /\ ProbeInit

OtherInit ==
    /\ CacheInit
    /\ WriteInit
    /\ RepairInit
    /\ LaterInit

Init ==
    /\ records \in CandidateLists
    /\ StoreInit
    /\ PeopleInit
    /\ PauseInit
    /\ FetchInit
    /\ MergeInit
    /\ EntryInit
    /\ RowsInit
    /\ OtherInit
    /\ since_last = REQUEST_DELAY_MAX

\* a new process: the CSV is read and the store file repaired
StartRun ==
    /\ pc \in {"idle", "done", "aborted"}
    /\ runs < MaxRuns
    /\ runs' = runs + 1
    /\ file' = ensure_json_array_closed(file)
    /\ FreshMemory
    /\ pc' = "load"
    /\ prev_completed' = (pc = "done")
    /\ prev_failed' = IF pc = "done" THEN FailedTasks(movies_to_process, job) ELSE <<>>
    /\ completed_order' = <<>>
    /\ delivered_order' = <<>>
    /\ in_flight' = {}
    /\ UNCHANGED max_assigned
    /\ repaired' = (ensure_json_array_closed(file) # file)
    /\ at_start' = Range(json_loads_array(ensure_json_array_closed(file)).value)
    /\ UNCHANGED <<records, written, torn>>
    /\ UNCHANGED nonStoreVars

\* lines 1320-1343: read back the records of the store
LoadExisting ==
    /\ pc = "load"
    /\ pc' = "init"
    /\ IF file # <<>>
       THEN LET doc == json_loads_array(file) IN
            IF doc.ok
            THEN /\ existing_records' = doc.value
                 /\ existing_ids' = {doc.value[i].imdb_id : i \in 1..Len(doc.value)} \ {0}
                 /\ existing_numeric_ids' = {doc.value[i]._id : i \in 1..Len(doc.value)}
                 /\ load_error' = FALSE
            ELSE /\ existing_records' = <<>>
                 /\ existing_ids' = {}
                 /\ existing_numeric_ids' = {}
                 /\ load_error' = TRUE
       ELSE UNCHANGED <<existing_records, existing_ids, existing_numeric_ids, load_error>>
    /\ UNCHANGED <<records, file, first_persisted_item, movies_to_process, job,
                   processed_tasks, new_movies_saved, next_numeric_id, runs, written,
                   torn, repaired, at_start, prev_completed, prev_failed, completed_order, delivered_order>>
    /\ UNCHANGED <<in_flight, max_assigned>>
    /\ UNCHANGED nonStoreVars

InitializeOutput ==
    /\ pc = "init"
    /\ pc' = "repersist"
    /\ file' = initialize_output
    /\ first_persisted_item' = TRUE
    /\ written' = <<>>
    /\ torn' = FALSE
    /\ UNCHANGED <<records, existing_records, existing_ids, existing_numeric_ids,
                   load_error, movies_to_process, job, processed_tasks,
                   new_movies_saved, next_numeric_id, runs, repaired, at_start, prev_completed,
                   prev_failed, completed_order, delivered_order>>
    /\ UNCHANGED <<in_flight, max_assigned>>
    /\ UNCHANGED nonStoreVars

\* lines 1346-1348
RePersist ==
    /\ pc = "repersist"
    /\ pc' = "plan"
    /\ LET out == persist_movies(existing_records, file, first_persisted_item) IN
       /\ file' = out.content
       /\ first_persisted_item' = out.first
    /\ written' = written \o existing_records
    /\ existing_records' = <<>>
    /\ UNCHANGED <<records, existing_ids, existing_numeric_ids, load_error,
                   movies_to_process, job, processed_tasks, new_movies_saved,
                   next_numeric_id, runs, torn, repaired, at_start, prev_completed, prev_failed,
                   completed_order, delivered_order>>
    /\ UNCHANGED <<in_flight, max_assigned>>
    /\ UNCHANGED nonStoreVars

\* lines 1350-1368; the executor receives every task at once
Plan ==
    /\ pc = "plan"
    /\ pc' = "pool"
    /\ movies_to_process' = PlanFrom(records, 1, existing_ids, {}, <<>>)
    /\ job' = [i \in 1..Len(movies_to_process') |-> "queued"]
    /\ processed_tasks' = 0
    /\ new_movies_saved' = 0
    /\ next_numeric_id' = IF existing_numeric_ids # {} THEN Max(existing_numeric_ids) + 1 ELSE 1
    /\ UNCHANGED <<records, file, first_persisted_item, existing_records, existing_ids,
                   existing_numeric_ids, load_error, runs, written, torn,
                   repaired, at_start, prev_completed, prev_failed, completed_order, delivered_order>>
    /\ UNCHANGED <<in_flight, max_assigned>>
    /\ UNCHANGED nonStoreVars

Running == {i \in 1..Len(job) : job[i] = "running"}

\* a worker thread takes the next queued task
JobStart(i) ==
    /\ pc = "pool"
    /\ i \in 1..Len(job)
    /\ job[i] = "queued"
    /\ \A j \in 1..(i - 1) : job[j] # "queued"
    /\ Cardinality(Running) < MaxWorkers
    /\ job' = [job EXCEPT ![i] = "running"]
    /\ UNCHANGED <<records, file, pc, first_persisted_item, existing_records,
                   existing_ids, existing_numeric_ids, load_error, movies_to_process,
                   processed_tasks, new_movies_saved, next_numeric_id, runs, written,
                   torn, repaired, at_start, prev_completed, prev_failed, completed_order, delivered_order>>
    /\ UNCHANGED <<in_flight, max_assigned>>
    /\ UNCHANGED nonStoreVars

\* scrape_movie_data returns: the page was scraped ("ok") or MovieImdb.__init__
\* took its except branch ("fail")
JobFinish(i, outcome) ==
    /\ pc = "pool"
    /\ i \in 1..Len(job)
    /\ job[i] = "running"
    /\ job' = [job EXCEPT ![i] = outcome]
    /\ completed_order' = Append(completed_order, i)
    /\ UNCHANGED <<records, file, pc, first_persisted_item, existing_records,
                   existing_ids, existing_numeric_ids, load_error, movies_to_process,
                   processed_tasks, new_movies_saved, next_numeric_id, runs, written,
                   torn, repaired, at_start, prev_completed, prev_failed, delivered_order>>
    /\ UNCHANGED <<in_flight, max_assigned>>
    /\ UNCHANGED nonStoreVars

\* movie.attributes of a finished task
Attributes(i) ==
    IF job[i] = "ok" THEN [imdb_id |-> movies_to_process[i][2], stub |-> FALSE]
    ELSE [imdb_id |-> 0, stub |-> TRUE]

\* one iteration of the result loop, lines 1376-1392
Consume ==
    /\ pc = "pool"
    /\ processed_tasks < Len(job)
    /\ LET i == processed_tasks + 1
           movie_data == Attributes(i)
           tt_id == movie_data.imdb_id
       IN
       /\ job[i] \in {"ok", "fail"}
       /\ processed_tasks' = processed_tasks + 1
       /\ delivered_order' = Append(delivered_order, i)
       /\ IF tt_id # 0 /\ tt_id \in existing_ids
          THEN UNCHANGED <<file, first_persisted_item, existing_ids, next_numeric_id,
                           new_movies_saved, written, max_assigned>>
          ELSE LET rec == [imdb_id |-> tt_id, _id |-> next_numeric_id]
                   out == persist_movies(<<rec>>, file, first_persisted_item)
               IN
               /\ existing_ids' = IF tt_id # 0 THEN existing_ids \cup {tt_id} ELSE existing_ids
               /\ next_numeric_id' = next_numeric_id + 1
               /\ max_assigned' = IF next_numeric_id > max_assigned THEN next_numeric_id
                                  ELSE max_assigned
               /\ file' = out.content
               /\ first_persisted_item' = out.first
               /\ new_movies_saved' = new_movies_saved + 1
               /\ written' = Append(written, rec)
    /\ UNCHANGED <<records, pc, existing_records, existing_numeric_ids, load_error,
                   movies_to_process, job, runs, torn, repaired, at_start, prev_completed, prev_failed,
                   completed_order, in_flight>>
    /\ UNCHANGED nonStoreVars

\* the finally block, lines 1400-1402
Finalize ==
    /\ pc = "pool"
    /\ processed_tasks = Len(job)
    /\ pc' = "done"
    /\ file' = finalize_output(persist_movies(<<>>, file, first_persisted_item).content)
    /\ UNCHANGED <<records, first_persisted_item, existing_records, existing_ids,
                   existing_numeric_ids, load_error, movies_to_process, job,
                   processed_tasks, new_movies_saved, next_numeric_id, runs, written,
                   torn, repaired, at_start, prev_completed, prev_failed>>
    /\ completed_order' = <<>>
    /\ delivered_order' = <<>>
    /\ UNCHANGED <<in_flight, max_assigned>>
    /\ UNCHANGED nonStoreVars

\* an exception or interrupt leaves the result loop of lines 1375-1376: the
\* iterator of executor.map is closed, which cancels the futures that have not
\* started, and the with statement waits in shutdown(wait=True)
Abort ==
    /\ pc = "pool"
    /\ Len(job) > 0
    /\ pc' = "aborting"
    /\ job' = [i \in 1..Len(job) |-> IF job[i] = "queued" THEN "cancelled" ELSE job[i]]
    /\ in_flight' = Running
    /\ UNCHANGED max_assigned
    /\ UNCHANGED <<records, file, first_persisted_item, existing_records,
                   existing_ids, existing_numeric_ids, load_error, movies_to_process,
                   processed_tasks, new_movies_saved, next_numeric_id, runs, written,
                   torn, repaired, at_start, prev_completed, prev_failed, completed_order,
                   delivered_order>>
    /\ UNCHANGED nonStoreVars

\* leaving the with block waits for the tasks that were executing (their results
\* are never read), then the finally block, lines 1400-1402, runs with the
\* exception pending; the process then ends with the exception
FinalizeAborted ==
    /\ pc = "aborting"
    /\ pc' = "aborted"
    /\ \E outcome \in [in_flight -> {"ok", "fail"}] :
         job' = [i \in 1..Len(job) |-> IF i \in in_flight THEN outcome[i] ELSE job[i]]
    /\ file' = finalize_output(persist_movies(<<>>, file, first_persisted_item).content)
    /\ completed_order' = <<>>
    /\ delivered_order' = <<>>
    /\ UNCHANGED <<records, first_persisted_item, existing_records, existing_ids,
                   existing_numeric_ids, load_error, movies_to_process,
                   processed_tasks, new_movies_saved, next_numeric_id, runs, written,
                   torn, repaired, at_start, prev_completed, prev_failed,
                   in_flight, max_assigned>>
    /\ UNCHANGED nonStoreVars

\* the process is killed between two statements
Crash ==
    /\ pc \in {"load", "init", "repersist", "plan", "pool", "aborting"}
    /\ pc' = "idle"
    /\ FreshMemory
    /\ completed_order' = <<>>
    /\ delivered_order' = <<>>
    /\ in_flight' = {}
    /\ UNCHANGED max_assigned
    /\ UNCHANGED <<records, file, runs, written, torn, repaired, at_start,
                   prev_completed, prev_failed>>
    /\ UNCHANGED nonStoreVars

\* the process is killed inside persist_movies: n whole records of the batch
\* reached the disk, followed by a fragment of the next one
TornWrite(batch, n, e) ==
    /\ n < Len(batch)
    /\ LET out == persist_movies(SubSeq(batch, 1, n), file, first_persisted_item) IN
       file' = IF out.first THEN Append(out.content, TornTok(e))
               ELSE out.content \o <<Tok("comma"), Tok("nl"), TornTok(e)>>
    /\ written' = written \o SubSeq(batch, 1, n)
    /\ torn' = TRUE
    /\ pc' = "idle"
    /\ FreshMemory
    /\ completed_order' = <<>>
    /\ delivered_order' = <<>>
    /\ in_flight' = {}
    /\ UNCHANGED max_assigned
    /\ UNCHANGED <<records, runs, repaired, at_start, prev_completed, prev_failed>>
    /\ UNCHANGED nonStoreVars

CrashInRePersist ==
    /\ pc = "repersist"
    /\ \E n \in 0..Len(existing_records), e \in {"x", "]"} :
           TornWrite(existing_records, n, e)

CrashInConsume ==
    /\ pc = "pool"
    /\ processed_tasks < Len(job)
    /\ job[processed_tasks + 1] \in {"ok", "fail"}
    /\ LET tt_id == Attributes(processed_tasks + 1).imdb_id IN
       /\ ~(tt_id # 0 /\ tt_id \in existing_ids)
       /\ \E e \in {"x", "]"} :
              TornWrite(<<[imdb_id |-> tt_id, _id |-> next_numeric_id]>>, 0, e)

Next ==
    \/ StartRun
    \/ LoadExisting
    \/ InitializeOutput
    \/ RePersist
    \/ Plan
    \/ \E i \in 1..MaxCand : JobStart(i)
    \/ \E i \in 1..MaxCand, outcome \in {"ok", "fail"} : JobFinish(i, outcome)
    \/ Consume
    \/ Finalize
    \/ Abort
    \/ FinalizeAborted
    \/ Crash
    \/ CrashInRePersist
    \/ CrashInConsume

Spec == Init /\ [][Next]_vars

\* ---- the people store ----

\* the three header lines and the opening of the "people" array
PeopleHeader == <<Tok("lbrace"), Tok("hdr"), Tok("hdr"), Tok("lb"), Tok("nl")>>

initialize_people_output == PeopleHeader

SerializePerson(person) == [t |-> "obj", key |-> person.imdb_name_id, id |-> person._id, end |-> "}"]

RECURSIVE persist_people(_, _, _)
persist_people(buffer, content, first) ==
    IF buffer = <<>> THEN [content |-> content, first |-> first]
    ELSE LET indented == SerializePerson(Head(buffer)) IN
         IF first
         THEN persist_people(Tail(buffer), Append(content, indented), FALSE)
         ELSE persist_people(Tail(buffer),
                             content \o <<Tok("comma"), Tok("nl"), indented>>, FALSE)

finalize_people_output(content) ==
    content \o <<Tok("nl"), Tok("rb"), Tok("nl"), Tok("rbrace"), Tok("nl")>>

ensure_people_json_closed(content) ==
    LET stripped == rstrip(content) IN
    IF stripped = <<>> \/ endswith(stripped, "}") THEN content
    ELSE IF endswith(stripped, "]")
    THEN stripped \o <<Tok("nl"), Tok("rbrace"), Tok("nl")>>
    ELSE stripped \o <<Tok("nl"), Tok("rb"), Tok("nl"), Tok("rbrace"), Tok("nl")>>

ParsedPerson(tok) == [imdb_name_id |-> tok.key, _id |-> tok.id]

PeopleItems(body) == [i \in 1..((Len(body) + 1) \div 2) |-> ParsedPerson(body[2 * i - 1])]

\* json.loads of the people document
json_loads_people(content) ==
    LET s == NoWS(content) IN
    IF /\ Len(s) >= 6
       /\ s[1].t = "lbrace" /\ s[2].t = "hdr" /\ s[3].t = "hdr" /\ s[4].t = "lb"
       /\ s[Len(s) - 1].t = "rb" /\ s[Len(s)].t = "rbrace"
       /\ ItemsOK(SubSeq(s, 5, Len(s) - 2))
    THEN [ok |-> TRUE, value |-> PeopleItems(SubSeq(s, 5, Len(s) - 2))]
    ELSE [ok |-> FALSE, value |-> <<>>]

\* sorted(people_map.values(), key=person_sort_key); the entries carry no
\* credits or names here, which leaves imdb_name_id as the key
RECURSIVE SortedPeople(_)
SortedPeople(people) ==
    IF people = {} THEN <<>>
    ELSE LET first == CHOOSE p \in people :
                          \A q \in people : p.imdb_name_id <= q.imdb_name_id
         IN <<first>> \o SortedPeople(people \ {first})

load_existing_people(content) ==
    LET doc == json_loads_people(content) IN
    IF content = <<>> THEN [people |-> {}, next |-> 1, error |-> FALSE]
    ELSE IF ~doc.ok THEN [people |-> {}, next |-> 1, error |-> TRUE]
    ELSE [people |-> Range(doc.value),
          next |-> IF doc.value = <<>> THEN 1
                   ELSE Max({doc.value[i]._id : i \in 1..Len(doc.value)}) + 1,
          error |-> FALSE]

FreshPeopleMemory ==
    /\ people_map' = {}
    /\ people_first_item' = TRUE
    /\ people_load_error' = FALSE
    /\ next_person_id' = 1
    /\ pending_flush_names' = 0
    /\ snap_todo' = <<>>
    /\ snap_phase' = "none"
    /\ mentions' = 0

\* class_people.py lines 66-67: the startup repair
PStart ==
    /\ ppc \in {"idle", "done"}
    /\ pruns < MaxPRuns
    /\ pruns' = pruns + 1
    /\ people_file' = ensure_people_json_closed(people_file)
    /\ FreshPeopleMemory
    /\ ppc' = "load"
    /\ UNCHANGED <<people_written>>
    /\ UNCHANGED nonPeopleVars

\* class_people.py lines 69-83
PLoad ==
    /\ ppc = "load"
    /\ LET loaded == load_existing_people(people_file) IN
       /\ people_map' = loaded.people
       /\ next_person_id' = loaded.next
       /\ people_load_error' = loaded.error
    /\ ppc' = "snap_init"
    /\ snap_phase' = "startup"
    /\ UNCHANGED <<people_file, people_first_item, pending_flush_names, snap_todo,
                   mentions, pruns, people_written>>
    /\ UNCHANGED nonPeopleVars

\* write_people_snapshot, line 397
SnapInit ==
    /\ ppc = "snap_init"
    /\ people_file' = initialize_people_output
    /\ people_first_item' = TRUE
    /\ snap_todo' = SortedPeople(people_map)
    /\ people_written' = <<>>
    /\ ppc' = "snap_write"
    /\ UNCHANGED <<people_map, people_load_error, next_person_id, pending_flush_names,
                   snap_phase, mentions, pruns>>
    /\ UNCHANGED nonPeopleVars

\* write_people_snapshot, lines 411-424: the buffer reaches persist_people when
\* it holds PEOPLE_SAVE_BATCH_SIZE entries, and once more after the loop
SnapPersist ==
    /\ ppc = "snap_write"
    /\ snap_todo # <<>>
    /\ LET n == Min(PEOPLE_SAVE_BATCH_SIZE, Len(snap_todo))
           buffer == SubSeq(snap_todo, 1, n)
           out == persist_people(buffer, people_file, people_first_item)
       IN
       /\ people_file' = out.content
       /\ people_first_item' = out.first
       /\ people_written' = people_written \o buffer
       /\ snap_todo' = SubSeq(snap_todo, n + 1, Len(snap_todo))
    /\ UNCHANGED <<ppc, people_map, people_load_error, next_person_id,
                   pending_flush_names, snap_phase, mentions, pruns>>
    /\ UNCHANGED nonPeopleVars

\* write_people_snapshot, line 425
SnapFinalize ==
    /\ ppc = "snap_write"
    /\ snap_todo = <<>>
    /\ people_file' = finalize_people_output(people_file)
    /\ ppc' = IF snap_phase = "final" THEN "done" ELSE "merge"
    /\ snap_phase' = "none"
    /\ UNCHANGED <<people_map, people_first_item, people_load_error, next_person_id,
                   pending_flush_names, snap_todo, mentions, pruns, people_written>>
    /\ UNCHANGED nonPeopleVars

\* class_people.py lines 161-233: one mention of a person changes the map (a new
\* person when isNew, else a new role or credit of a known one) and is queued;
\* queue_person_for_flush writes a snapshot when the queue is full
MergePerson(isNew) ==
    /\ ppc = "merge"
    /\ mentions < MaxMentions
    /\ mentions' = mentions + 1
    /\ IF isNew
       THEN /\ Cardinality(people_map) < MaxPeople
            /\ people_map' = people_map \cup
                                 {[imdb_name_id |-> Cardinality(people_map) + 1,
                                   _id |-> next_person_id]}
            /\ next_person_id' = next_person_id + 1
       ELSE /\ people_map # {}
            /\ UNCHANGED <<people_map, next_person_id>>
    /\ IF pending_flush_names + 1 >= PEOPLE_SAVE_BATCH_SIZE
       THEN /\ pending_flush_names' = 0
            /\ ppc' = "snap_init"
            /\ snap_phase' = "batch"
       ELSE /\ pending_flush_names' = pending_flush_names + 1
            /\ UNCHANGED <<ppc, snap_phase>>
    /\ UNCHANGED <<people_file, people_first_item, people_load_error, snap_todo,
                   pruns, people_written>>
    /\ UNCHANGED nonPeopleVars

\* class_people.py lines 235-255: the final flush
MergeDone ==
    /\ ppc = "merge"
    /\ IF pending_flush_names > 0
       THEN /\ ppc' = "snap_init"
            /\ snap_phase' = "final"
            /\ pending_flush_names' = 0
       ELSE /\ ppc' = "done"
            /\ UNCHANGED <<snap_phase, pending_flush_names>>
    /\ UNCHANGED <<people_file, people_map, people_first_item, people_load_error,
                   next_person_id, snap_todo, mentions, pruns, people_written>>
    /\ UNCHANGED nonPeopleVars

\* the people process is killed between two statements
PCrash ==
    /\ ppc \in {"load", "snap_init", "snap_write", "merge"}
    /\ ppc' = "idle"
    /\ FreshPeopleMemory
    /\ UNCHANGED <<people_file, pruns, people_written>>
    /\ UNCHANGED nonPeopleVars

PeopleNext ==
    \/ PStart
    \/ PLoad
    \/ SnapInit
    \/ SnapPersist
    \/ SnapFinalize
    \/ \E isNew \in BOOLEAN : MergePerson(isNew)
    \/ MergeDone
    \/ PCrash

InitPeople ==
    /\ records = <<>>
    /\ StoreInit
    /\ PeopleInit
    /\ PauseInit
    /\ FetchInit
    /\ MergeInit
    /\ EntryInit
    /\ RowsInit
    /\ OtherInit
    /\ since_last = REQUEST_DELAY_MAX

SpecPeople == InitPeople /\ [][PeopleNext]_vars

\* ---- the politeness scheduler ----

\* entry of polite_request_pause
Call(t) ==
    /\ tpc[t] = "idle"
    /\ calls < MaxCalls
    /\ calls' = calls + 1
    /\ tpc' = [tpc EXCEPT ![t] = "acquire1"]
    /\ slept' = [slept EXCEPT ![t] = FALSE]
    /\ UNCHANGED <<request_lock, since_last, request_counter, wait_seconds, cooldown,
                   loaded_counter, reservations, last_gap, due>>
    /\ UNCHANGED nonPauseVars

\* line 196: with request_lock
Acquire1(t) ==
    /\ tpc[t] = "acquire1"
    /\ request_lock = 0
    /\ request_lock' = t
    /\ tpc' = [tpc EXCEPT ![t] = "compute"]
    /\ UNCHANGED <<since_last, request_counter, wait_seconds, cooldown, loaded_counter,
                   calls, reservations, last_gap, due, slept>>
    /\ UNCHANGED nonPauseVars

\* lines 197-204: the residual wait is computed and the lock released
ComputeWait(t, min_delay) ==
    /\ tpc[t] = "compute"
    /\ LET residual == min_delay - since_last
           w == IF residual > 0 THEN residual ELSE 0
       IN
       /\ wait_seconds' = [wait_seconds EXCEPT ![t] = w]
       /\ tpc' = [tpc EXCEPT ![t] = IF w > 0 THEN "sleep" ELSE "acquire2"]
    /\ request_lock' = 0
    /\ cooldown' = [cooldown EXCEPT ![t] = 0]
    /\ UNCHANGED <<since_last, request_counter, loaded_counter, calls, reservations,
                   last_gap, due, slept>>
    /\ UNCHANGED nonPauseVars

\* line 202: time.sleep(wait_seconds) returns
WakeUp(t) ==
    /\ tpc[t] = "sleep"
    /\ wait_seconds[t] = 0
    /\ tpc' = [tpc EXCEPT ![t] = "acquire2"]
    /\ UNCHANGED <<request_lock, since_last, request_counter, wait_seconds, cooldown,
                   loaded_counter, calls, reservations, last_gap, due, slept>>
    /\ UNCHANGED nonPauseVars

\* line 205: with request_lock
Acquire2(t) ==
    /\ tpc[t] = "acquire2"
    /\ request_lock = 0
    /\ request_lock' = t
    /\ tpc' = [tpc EXCEPT ![t] = "stamp"]
    /\ UNCHANGED <<since_last, request_counter, wait_seconds, cooldown, loaded_counter,
                   calls, reservations, last_gap, due, slept>>
    /\ UNCHANGED nonPauseVars

\* line 206 and the read of line 207: the reservation
Stamp(t) ==
    /\ tpc[t] = "stamp"
    /\ last_gap' = IF reservations >= 1 THEN Min(since_last, REQUEST_DELAY_MIN) ELSE last_gap
    /\ since_last' = 0
    /\ reservations' = reservations + 1
    /\ due' = [due EXCEPT ![t] = (reservations + 1) % REQUEST_COOLDOWN_EVERY = 0]
    /\ loaded_counter' = [loaded_counter EXCEPT ![t] = request_counter]
    /\ tpc' = [tpc EXCEPT ![t] = "count"]
    /\ UNCHANGED <<request_lock, request_counter, wait_seconds, cooldown, calls, slept>>
    /\ UNCHANGED nonPauseVars

\* mutant: the cooldown is decided on the counter as read, before the increment
Count_OffByOne(t, c) ==
    /\ tpc[t] = "count"
    /\ request_counter' = loaded_counter[t] + 1
    /\ loaded_counter' = [loaded_counter EXCEPT ![t] = 0]
    /\ request_lock' = 0
    /\ IF loaded_counter[t] % REQUEST_COOLDOWN_EVERY = 0
       THEN /\ cooldown' = [cooldown EXCEPT ![t] = c]
            /\ wait_seconds' = [wait_seconds EXCEPT ![t] = c]
            /\ tpc' = [tpc EXCEPT ![t] = "cooldown"]
       ELSE /\ c = REQUEST_COOLDOWN_MIN
            /\ tpc' = [tpc EXCEPT ![t] = "idle"]
            /\ UNCHANGED <<cooldown, wait_seconds>>
    /\ UNCHANGED <<since_last, calls, reservations, last_gap, due, slept>>
    /\ UNCHANGED nonPauseVars

\* the write of line 207 and lines 208-211: the counter is stored, the cooldown
\* drawn on every REQUEST_COOLDOWN_EVERY-th request, and the lock released
Count(t, c) ==
    /\ tpc[t] = "count"
    /\ request_counter' = loaded_counter[t] + 1
    /\ loaded_counter' = [loaded_counter EXCEPT ![t] = 0]
    /\ request_lock' = 0
    /\ IF (loaded_counter[t] + 1) % REQUEST_COOLDOWN_EVERY = 0
       THEN /\ cooldown' = [cooldown EXCEPT ![t] = c]
            /\ wait_seconds' = [wait_seconds EXCEPT ![t] = c]
            /\ tpc' = [tpc EXCEPT ![t] = "cooldown"]
       ELSE /\ c = REQUEST_COOLDOWN_MIN
            /\ tpc' = [tpc EXCEPT ![t] = "idle"]
            /\ UNCHANGED <<cooldown, wait_seconds>>
    /\ UNCHANGED <<since_last, calls, reservations, last_gap, due, slept>>
    /\ UNCHANGED nonPauseVars

\* line 212: time.sleep(cooldown) returns
CooldownDone(t) ==
    /\ tpc[t] = "cooldown"
    /\ wait_seconds[t] = 0
    /\ tpc' = [tpc EXCEPT ![t] = "idle"]
    /\ slept' = [slept EXCEPT ![t] = TRUE]
    /\ cooldown' = [cooldown EXCEPT ![t] = 0]
    /\ UNCHANGED <<request_lock, since_last, request_counter, wait_seconds,
                   loaded_counter, calls, reservations, last_gap, due>>
    /\ UNCHANGED nonPauseVars

\* half a second passes on time.perf_counter()
Tick ==
    /\ \/ since_last < REQUEST_DELAY_MAX
       \/ \E t \in Threads : wait_seconds[t] > 0
    /\ since_last' = Min(since_last + 1, REQUEST_DELAY_MAX)
    /\ wait_seconds' = [t \in Threads |->
                           IF tpc[t] \in {"sleep", "cooldown"} /\ wait_seconds[t] > 0
                           THEN wait_seconds[t] - 1 ELSE wait_seconds[t]]
    /\ UNCHANGED <<request_lock, request_counter, tpc, cooldown, loaded_counter, calls,
                   reservations, last_gap, due, slept>>
    /\ UNCHANGED nonPauseVars

PauseNext ==
    \/ \E t \in Threads : Call(t)
    \/ \E t \in Threads : Acquire1(t)
    \/ \E t \in Threads, min_delay \in REQUEST_DELAY_MIN..REQUEST_DELAY_MAX :
           ComputeWait(t, min_delay)
    \/ \E t \in Threads : WakeUp(t)
    \/ \E t \in Threads : Acquire2(t)
    \/ \E t \in Threads : Stamp(t)
    \/ \E t \in Threads, c \in REQUEST_COOLDOWN_MIN..REQUEST_COOLDOWN_MAX : Count(t, c)
    \/ \E t \in Threads : CooldownDone(t)
    \/ Tick

\* last_request_ts starts at 0.0 against a clock whose origin is unspecified
InitPause ==
    /\ records = <<>>
    /\ StoreInit
    /\ PeopleInit
    /\ PauseInit
    /\ FetchInit
    /\ MergeInit
    /\ EntryInit
    /\ RowsInit
    /\ OtherInit
    /\ since_last \in 0..REQUEST_DELAY_MAX

SpecPause == InitPause /\ [][PauseNext]_vars

\* ---- the fetcher ----

\* status codes a response can carry
StatusCodes == {200, 403, 404, 429, 503}

\* what the html of a response holds: the word "captcha", the words
\* "Request blocked", more than 500 characters once stripped
Responses == [status_code : StatusCodes, captcha : BOOLEAN, blocked : BOOLEAN, long : BOOLEAN]

\* requests.Response.ok
ok(response) == response.status_code < 400

\* the if chain of the loop body, in its order
Classify(response) ==
    IF response.status_code \in {429, 503} \/ response.captcha THEN "throttled"
    ELSE IF response.status_code = 403 \/ response.blocked THEN "blocked"
    ELSE IF ok(response) /\ response.long THEN "success"
    ELSE "invalid"

\* mutant: the loop runs once more
LoopExhausted_OneMore(n) == n >= FETCH_ATTEMPTS + 1

\* for attempt in range(5) has no value left
LoopExhausted(n) == n >= FETCH_ATTEMPTS

\* one pass of the loop body up to its sleep or return: the pause, the request
\* and the classification of the response
Attempt(response) ==
    /\ fetch_pc = "loop"
    /\ ~LoopExhausted(attempt)
    /\ request_counter' = request_counter + 1
    /\ since_last' = 0
    /\ response_page' = response
    /\ classes' = Append(classes, Classify(response))
    /\ IF Classify(response) = "success"
       THEN /\ fetch_pc' = "returned"
            /\ backoff' = "none"
       ELSE /\ fetch_pc' = "sleep"
            /\ backoff' = Classify(response)
    /\ UNCHANGED attempt
    /\ UNCHANGED <<request_lock, tpc, wait_seconds, cooldown, loaded_counter, calls,
                   reservations, last_gap, due, slept>>
    /\ UNCHANGED <<storeVars, peopleVars, mergeVars, entryVars, rowsVars, otherVars>>

\* time.sleep returns and the loop takes its next value
Backoff ==
    /\ fetch_pc = "sleep"
    /\ fetch_pc' = "loop"
    /\ attempt' = attempt + 1
    /\ backoff' = "none"
    /\ UNCHANGED <<response_page, classes>>
    /\ UNCHANGED <<storeVars, peopleVars, pauseVars, mergeVars, entryVars, rowsVars, otherVars>>

\* the raise after the loop
RaiseFetchError ==
    /\ fetch_pc = "loop"
    /\ LoopExhausted(attempt)
    /\ fetch_pc' = "raised"
    /\ UNCHANGED <<attempt, response_page, backoff, classes>>
    /\ UNCHANGED <<storeVars, peopleVars, pauseVars, mergeVars, entryVars, rowsVars, otherVars>>

FetchNext ==
    \/ \E response \in Responses : Attempt(response)
    \/ Backoff
    \/ RaiseFetchError

InitFetch ==
    /\ records = <<>>
    /\ StoreInit
    /\ PeopleInit
    /\ PauseInit
    /\ FetchInit
    /\ MergeInit
    /\ EntryInit
    /\ RowsInit
    /\ OtherInit
    /\ since_last = REQUEST_DELAY_MAX

\* a sleep ends and a request is answered: every enabled step is taken
SpecFetch == InitFetch /\ [][FetchNext]_vars /\ WF_vars(FetchNext)

\* ---- merge_person_entry ----

\* a scalar field (name, url, photo_url and biography go through the same
\* statement of the loop of line 504): 0 is None or empty
ScalarValues == {0, 1, 2}

RoleNames == {"Director", "Writer"}

\* position of a role name in the order of Python strings
RoleRank(r) ==
    CASE r = "Actor" -> 1
      [] r = "Creator" -> 2
      [] r = "Director" -> 3
      [] r = "Writer" -> 4

\* a credit {"_id": ..., "title": ...}; _id 0 is a missing _id
MovieRefs == [_id : {0, 1, 2}, title : {1, 2}]

SeqsUpTo(S, n) == UNION {[1..k -> S] : k \in 0..n}

Entries == [name : ScalarValues, role : SeqsUpTo(RoleNames, MaxCredits),
            movie : SeqsUpTo(MovieRefs, MaxCredits)]

\* sorted(roles)
RECURSIVE SortRoles(_)
SortRoles(S) ==
    IF S = {} THEN <<>>
    ELSE LET r == CHOOSE x \in S : \A y \in S : RoleRank(x) <= RoleRank(y)
         IN <<r>> \o SortRoles(S \ {r})

\* movie.get("_id") or movie.get("title")
MovieKey(movie) ==
    IF movie._id # 0 THEN <<"_id", movie._id>> ELSE <<"title", movie.title>>

\* the sort key (title, _id) of a credit
MovieBefore(m, n) ==
    \/ m.title < n.title
    \/ m.title = n.title /\ m._id <= n._id

\* sorted(existing_movies.values(), key=...); the values have distinct keys
RECURSIVE SortMovies(_)
SortMovies(S) ==
    IF S = {} THEN <<>>
    ELSE LET m == CHOOSE x \in S : \A y \in S : MovieBefore(x, y)
         IN <<m>> \o SortMovies(S \ {m})

\* lines 511-516: the credits of the target, a later one replacing an earlier
\* one with the same key
RECURSIVE TargetMovies(_, _)
TargetMovies(movies, existing_movies) ==
    IF movies = <<>> THEN existing_movies
    ELSE TargetMovies(Tail(movies),
                      {m \in existing_movies : MovieKey(m) # MovieKey(Head(movies))}
                          \cup {Head(movies)})

\* lines 517-522: an incoming credit is added when its key is not present
RECURSIVE IncomingMovies(_, _)
IncomingMovies(movies, existing_movies) ==
    IF movies = <<>> THEN existing_movies
    ELSE IF \E m \in existing_movies : MovieKey(m) = MovieKey(Head(movies))
    THEN IncomingMovies(Tail(movies), existing_movies)
    ELSE IncomingMovies(Tail(movies), existing_movies \cup {Head(movies)})

\* mutant: the incoming roles are appended to the list
MergeRoles_Extend(target_roles, incoming_roles) == target_roles \o incoming_roles

\* lines 507-509: sorted(target_roles.union(incoming_roles))
MergeRoles(target_roles, incoming_roles) ==
    SortRoles(Range(target_roles) \cup Range(incoming_roles))

merge_person_entry(t, i) ==
    [name |-> IF t.name = 0 /\ i.name # 0 THEN i.name ELSE t.name,
     role |-> MergeRoles(t.role, i.role),
     movie |-> SortMovies(IncomingMovies(i.movie, TargetMovies(t.movie, {})))]

\* one call merge_person_entry(target, incoming)
MergeEntry ==
    /\ merges < MaxMerges
    /\ merges' = merges + 1
    /\ target' = merge_person_entry(target, incoming)
    /\ UNCHANGED <<incoming, x0>>
    /\ UNCHANGED <<storeVars, peopleVars, pauseVars, fetchVars, entryVars, rowsVars, otherVars>>

MergeNext == MergeEntry

InitMerge ==
    /\ records = <<>>
    /\ StoreInit
    /\ PeopleInit
    /\ PauseInit
    /\ FetchInit
    /\ since_last = REQUEST_DELAY_MAX
    /\ EntryInit
    /\ RowsInit
    /\ OtherInit
    /\ target \in Entries
    /\ incoming \in Entries
    /\ x0 = target
    /\ merges = 0

SpecMerge == InitMerge /\ [][MergeNext]_vars

\* ---- one person across titles and runs ----

WorkIds == {0, 1, 2}

TitleNames == {0, 1, 2}

\* sorted(list) over role names, by insertion
RECURSIVE InsertRole(_, _)
InsertRole(r, sorted_roles) ==
    IF sorted_roles = <<>> THEN <<r>>
    ELSE IF RoleRank(r) < RoleRank(Head(sorted_roles)) THEN <<r>> \o sorted_roles
    ELSE <<Head(sorted_roles)>> \o InsertRole(r, Tail(sorted_roles))

RECURSIVE SortedRoleList(_, _)
SortedRoleList(roles, acc) ==
    IF roles = <<>> THEN acc
    ELSE SortedRoleList(Tail(roles), InsertRole(Head(roles), acc))

MovieLess(m, n) ==
    \/ m.title < n.title
    \/ m.title = n.title /\ m._id < n._id

\* sorted(list, key=(title, _id)) over credits, by insertion
RECURSIVE InsertMovie(_, _)
InsertMovie(m, sorted_movies) ==
    IF sorted_movies = <<>> THEN <<m>>
    ELSE IF MovieLess(m, Head(sorted_movies)) THEN <<m>> \o sorted_movies
    ELSE <<Head(sorted_movies)>> \o InsertMovie(m, Tail(sorted_movies))

RECURSIVE SortedMovieList(_, _)
SortedMovieList(movies, acc) ==
    IF movies = <<>> THEN acc
    ELSE SortedMovieList(Tail(movies), InsertMovie(Head(movies), acc))

\* write_people_snapshot, lines 411-418: the copy of a person that is written
SnapshotCopy(person) ==
    [person EXCEPT !.role = SortedRoleList(person.role, <<>>),
                   !.movie = SortedMovieList(person.movie, <<>>)]

\* class_people.py lines 236-241
Normalized(person) ==
    [person EXCEPT !.role = SortRoles(Range(person.role)),
                   !.movie = SortedMovieList(person.movie, <<>>)]

\* mutant: the filled name is replaced by an incoming one
FillScalars_Overwrite(person, in_name, in_biography) ==
    [person EXCEPT !.name = IF in_name # 0 THEN in_name ELSE person.name,
                   !.biography = IF person.biography = 0 /\ in_biography # 0
                                 THEN in_biography ELSE person.biography]

\* class_people.py lines 191-208: name stands for name and url, biography for
\* photo_url and biography
FillScalars(person, in_name, in_biography) ==
    [person EXCEPT !.name = IF person.name = 0 THEN in_name ELSE person.name,
                   !.biography = IF person.biography = 0 /\ in_biography # 0
                                 THEN in_biography ELSE person.biography]

\* lines 210-212
AddRole(person, role_name) ==
    IF role_name \in Range(person.role) THEN person
    ELSE [person EXCEPT !.role = Append(person.role, role_name)]

HasMovie(person, movie_id) == \E k \in 1..Len(person.movie) : person.movie[k]._id = movie_id

\* mutant: the credit is appended without looking for its _id
AddMovie_NoCheck(person, movie_id, movie_title) ==
    IF movie_id # 0 /\ movie_title # 0 /\ Len(person.movie) < 3
    THEN [person EXCEPT !.movie = Append(person.movie, [_id |-> movie_id, title |-> movie_title])]
    ELSE person

\* lines 214-218
AddMovie(person, movie_id, movie_title) ==
    IF movie_id # 0 /\ movie_title # 0 /\ ~HasMovie(person, movie_id)
    THEN [person EXCEPT !.movie = Append(person.movie, [_id |-> movie_id, title |-> movie_title])]
    ELSE person

\* queue_person_for_flush: the name is queued and, when the queue is full, the
\* snapshot of people_map written; the queue also holds the names of other
\* people, so full says whether it has reached PEOPLE_SAVE_BATCH_SIZE names
QueueForFlush(person, full) ==
    /\ full => (pending \/ PEOPLE_SAVE_BATCH_SIZE <= 1)
    /\ IF full
       THEN /\ pending' = FALSE
            /\ stored' = SnapshotCopy(person)
       ELSE /\ pending' = TRUE
            /\ UNCHANGED stored

\* class_people.py lines 66-85: repair, load_existing_people and the startup snapshot
EStart ==
    /\ epc \in {"idle", "done"}
    /\ epc' = "loop"
    /\ entry' = stored
    /\ stored' = SnapshotCopy(stored)
    /\ pending' = FALSE
    /\ offered' = FALSE
    /\ UNCHANGED <<storeVars, peopleVars, pauseVars, fetchVars, mergeVars, rowsVars, otherVars>>

\* one pass of the loop body of lines 161-233 for this person
Mention(movie_id, movie_title, role_name, in_name, in_biography, full) ==
    /\ epc = "loop"
    /\ LET created == ~entry.present
           e1 == IF created
                 THEN [present |-> TRUE, name |-> in_name, biography |-> in_biography,
                       role |-> <<>>, movie |-> <<>>]
                 ELSE FillScalars(entry, in_name, in_biography)
           e2 == AddRole(e1, role_name)
           e3 == AddMovie(e2, movie_id, movie_title)
           entry_changed == \/ created
                            \/ entry.name = 0
                            \/ entry.biography = 0 /\ in_biography # 0
                            \/ e2 # e1
                            \/ e3 # e2
       IN
       /\ entry' = e3
       /\ IF entry_changed THEN QueueForFlush(e3, full)
          ELSE /\ ~full
               /\ UNCHANGED <<pending, stored>>
       /\ offered' = (offered \/ (~created /\ entry.name # 0 /\ in_name # 0
                                   /\ in_name # entry.name))
    /\ UNCHANGED epc
    /\ UNCHANGED <<storeVars, peopleVars, pauseVars, fetchVars, mergeVars, rowsVars, otherVars>>

\* the loop body changed the entry of another person
OtherMention(full) ==
    /\ epc = "loop"
    /\ QueueForFlush(entry, full)
    /\ UNCHANGED <<entry, epc, offered>>
    /\ UNCHANGED <<storeVars, peopleVars, pauseVars, fetchVars, mergeVars, rowsVars, otherVars>>

\* lines 235-244: the lists are normalized and the pending names flushed
EFinish ==
    /\ epc = "loop"
    /\ epc' = "done"
    /\ entry' = Normalized(entry)
    /\ stored' = IF pending THEN SnapshotCopy(Normalized(entry)) ELSE stored
    /\ pending' = FALSE
    /\ UNCHANGED offered
    /\ UNCHANGED <<storeVars, peopleVars, pauseVars, fetchVars, mergeVars, rowsVars, otherVars>>

\* the process is killed; killed inside a snapshot it leaves a file that
\* load_existing_people ignores
ECrash(lost) ==
    /\ epc = "loop"
    /\ epc' = "idle"
    /\ entry' = NoEntry
    /\ stored' = IF lost THEN NoEntry ELSE stored
    /\ pending' = FALSE
    /\ UNCHANGED offered
    /\ UNCHANGED <<storeVars, peopleVars, pauseVars, fetchVars, mergeVars, rowsVars, otherVars>>

EntryNext ==
    \/ EStart
    \/ \E movie_id \in WorkIds, movie_title \in TitleNames, role_name \in RoleNames,
          in_name \in ScalarValues, in_biography \in ScalarValues, full \in BOOLEAN :
           Mention(movie_id, movie_title, role_name, in_name, in_biography, full)
    \/ \E full \in BOOLEAN : OtherMention(full)
    \/ EFinish
    \/ \E lost \in BOOLEAN : ECrash(lost)

InitEntry ==
    /\ records = <<>>
    /\ StoreInit
    /\ PeopleInit
    /\ PauseInit
    /\ FetchInit
    /\ MergeInit
    /\ EntryInit
    /\ RowsInit
    /\ OtherInit
    /\ since_last = REQUEST_DELAY_MAX

SpecEntry == InitEntry /\ [][EntryNext]_vars

\* ======================================================================
\* build_rows_to_process (people_functions.py)
\* ======================================================================
\* a missing index argument (Python None); a missing string is ""
None == 0 - 1

MovieIds == {"ms1", "ms2"}
ImdbRaw == {"", "tt0000001", "title/tt0000001/"}
MovieRows == [_id : MovieIds \cup {""}, imdb_id : ImdbRaw]
ItemLists == UNION {[1..n -> MovieRows] : n \in 0..MaxItems}
IndexArgs == None..MaxItems

\* re.search(r"tt\d{7,}", str(imdb_raw)): the first tt identifier of the text, "" for no match
imdb_tt_of(imdb_raw) ==
    IF imdb_raw \in {"tt0000001", "title/tt0000001/"} THEN "tt0000001" ELSE ""

\* the truthy members of key_candidates
key_candidates(row) == {row._id, imdb_tt_of(row.imdb_id)} \ {""}

row_copy(row, idx) ==
    [_id |-> row._id, imdb_id |-> row.imdb_id, imdb_tt |-> imdb_tt_of(row.imdb_id), pos |-> idx]

\* mutant: the keys of a queued row are not remembered
RECURSIVE QueueRows_NoQueue(_, _, _, _)
QueueRows_NoQueue(rows, idx, queued_movie_keys, acc) ==
    IF idx > Len(rows) THEN acc
    ELSE IF key_candidates(rows[idx]) \cap queued_movie_keys # {}
    THEN QueueRows_NoQueue(rows, idx + 1, queued_movie_keys, acc)
    ELSE QueueRows_NoQueue(rows, idx + 1, queued_movie_keys,
                           Append(acc, row_copy(rows[idx], idx)))

\* lines 590-611: the loop over items
RECURSIVE QueueRows(_, _, _, _)
QueueRows(rows, idx, queued_movie_keys, acc) ==
    IF idx > Len(rows) THEN acc
    ELSE IF key_candidates(rows[idx]) \cap queued_movie_keys # {}
    THEN QueueRows(rows, idx + 1, queued_movie_keys, acc)
    ELSE QueueRows(rows, idx + 1, queued_movie_keys \cup key_candidates(rows[idx]),
                   Append(acc, row_copy(rows[idx], idx)))

\* zero-based index of the first row with that _id, None when absent
resolve_movie_index(rows, movie_id) ==
    IF movie_id = "" THEN None
    ELSE LET hits == {i \in 1..Len(rows) : rows[i]._id = movie_id} IN
         IF hits = {} THEN None
         ELSE (CHOOSE i \in hits : \A j \in hits : i <= j) - 1

\* rows[start_idx:end_idx] for 0 <= start_idx < len(rows), end_idx >= 0
Slice(rows, start_idx, end_idx) == SubSeq(rows, start_idx + 1, Min(end_idx, Len(rows)))

build_rows_to_process(its, processed, smi, emi, sid, eid) ==
    LET queued == QueueRows(its, 1, processed, <<>>)
        start_idx0 == IF smi # None
                      THEN (IF (IF smi = 0 THEN 1 ELSE smi) - 1 > 0
                            THEN (IF smi = 0 THEN 1 ELSE smi) - 1 ELSE 0)
                      ELSE None
        end_idx0 == emi
        hinted_start == resolve_movie_index(queued, sid)
        hinted_end == resolve_movie_index(queued, eid)
        start_idx1 == IF hinted_start # None THEN hinted_start ELSE start_idx0
        end_idx1 == IF hinted_end # None THEN hinted_end + 1 ELSE end_idx0
    IN  IF start_idx1 # None \/ end_idx1 # None
        THEN LET start_idx == IF start_idx1 = None THEN 0 ELSE start_idx1
                 end_idx == IF end_idx1 # None THEN end_idx1 ELSE Len(queued)
             IN  IF start_idx >= Len(queued) THEN <<>>
                 ELSE Slice(queued, start_idx, end_idx)
        ELSE queued

BuildRows ==
    /\ rpc = "call"
    /\ rpc' = "returned"
    /\ rows_to_process' = build_rows_to_process(items, processed_movies, start_movie_index,
                                                end_movie_index, start_movie_id, end_movie_id)
    /\ UNCHANGED <<items, processed_movies, start_movie_index, end_movie_index,
                   start_movie_id, end_movie_id>>
    /\ UNCHANGED <<storeVars, peopleVars, pauseVars, fetchVars, mergeVars, entryVars, otherVars>>

\* a store file left by a completed run that persisted the keys of S
CompletedStore(S) ==
    LET keys == SelectSeq([k \in 1..NumKeys |-> k], LAMBDA k : k \in S)
        recs == [i \in 1..Len(keys) |-> [imdb_id |-> keys[i], _id |-> i]]
    IN  finalize_output(persist_movies(recs, initialize_output, TRUE).content)

\* either a call of build_rows_to_process, or a start of the catalog scraper on a completed store
InitRows ==
    /\ PeopleInit
    /\ PauseInit
    /\ FetchInit
    /\ MergeInit
    /\ EntryInit
    /\ OtherInit
    /\ since_last = REQUEST_DELAY_MAX
    /\ rows_to_process = <<>>
    /\ \/ /\ rpc = "call"
          /\ items \in ItemLists
          /\ processed_movies \in SUBSET (MovieIds \cup {"tt0000001"})
          /\ start_movie_index \in IndexArgs
          /\ end_movie_index \in IndexArgs
          /\ start_movie_id \in MovieIds \cup {""}
          /\ end_movie_id \in MovieIds \cup {""}
          /\ records = <<>>
          /\ StoreInit
       \/ /\ rpc = "idle"
          /\ items = <<>>
          /\ processed_movies = {}
          /\ start_movie_index = None
          /\ end_movie_index = None
          /\ start_movie_id = ""
          /\ end_movie_id = ""
          /\ records \in CandidateLists
          /\ \E S \in SUBSET (1..NumKeys) : file = CompletedStore(S)
          /\ FreshProcess

RowsNext ==
    \/ BuildRows
    \/ rpc = "idle" /\ StartRun
    \/ rpc = "idle" /\ LoadExisting
    \/ rpc = "idle" /\ InitializeOutput
    \/ rpc = "idle" /\ RePersist
    \/ rpc = "idle" /\ Plan

SpecRows == InitRows /\ [][RowsNext]_vars

\* ======================================================================
\* collect_title_payloads and the title cache (people_functions.py)
\* ======================================================================
\* the state of every stage modelled before this one, at rest
RestInit ==
    /\ PeopleInit
    /\ PauseInit
    /\ FetchInit
    /\ MergeInit
    /\ EntryInit
    /\ RowsInit
    /\ since_last = REQUEST_DELAY_MAX

CoreInit ==
    /\ records = <<>>
    /\ StoreInit
    /\ RestInit

\* what a worker hands back: "people" is the payload built from a fetched page,
\* "empty" the payload fetch_people_for_title builds in its except branch when
\* soup() raised, "error" an exception leaving extract_title_people
FetchResults == {"people", "empty", "error"}

\* json.loads of the cache file; a missing, empty or unparsable file gives {}
load_title_cache(f) == IF f.state = "written" THEN f.titles ELSE <<>>

\* path.write_text(json.dumps(payload)) run to its end
persist_title_cache(cache) == [state |-> "written", titles |-> cache]

\* the file when the process is killed inside write_text: opened for writing,
\* hence truncated, with a prefix of the document in it
TornCache == [state |-> "torn", titles |-> <<>>]

Put(cache, key, result) ==
    [k \in (DOMAIN cache) \cup {key} |-> IF k = key THEN result ELSE cache[k]]

\* lines 699-740: load the cache, take the cached rows, submit the others
CollectStart(rows) ==
    /\ cpc \in {"idle", "returned"}
    /\ cruns < MaxCacheRuns
    /\ cruns' = cruns + 1
    /\ LET loaded == load_title_cache(cache_file)
           rows_to_fetch == rows \ DOMAIN loaded
       IN  /\ title_cache' = loaded
           /\ titles_payload' = rows \cap DOMAIN loaded
           /\ futures' = [k \in Titles |-> IF k \in rows_to_fetch THEN "pending" ELSE "none"]
           /\ cpc' = IF rows_to_fetch = {} THEN "returned" ELSE "pool"
    /\ title_errors' = {}
    /\ UNCHANGED <<cache_file, entry_written>>
    /\ UNCHANGED <<coreVars, writeVars, repairVars, laterVars>>

\* a worker finishes extract_title_people
FetchDone(k, result) ==
    /\ cpc = "pool"
    /\ futures[k] = "pending"
    /\ futures' = [futures EXCEPT ![k] = result]
    /\ UNCHANGED <<cache_file, title_cache, titles_payload, title_errors, cpc, cruns,
                   entry_written>>
    /\ UNCHANGED <<coreVars, writeVars, repairVars, laterVars>>

\* lines 752-756: if result: ... if cache_key: (both payloads carry imdb_id)
Cacheable(result) == result \in {"people", "empty"}

\* one iteration of the as_completed loop, lines 743-765
ConsumeResult(k) ==
    /\ cpc = "pool"
    /\ futures[k] \in FetchResults
    /\ futures' = [futures EXCEPT ![k] = "consumed"]
    /\ IF futures[k] = "error"
       THEN /\ title_errors' = title_errors \cup {k}
            /\ UNCHANGED <<titles_payload, title_cache, cache_file, entry_written>>
       ELSE /\ titles_payload' = titles_payload \cup {k}
            /\ IF Cacheable(futures[k])
               THEN /\ title_cache' = Put(title_cache, k, futures[k])
                    /\ cache_file' = persist_title_cache(title_cache')
                    /\ entry_written' = entry_written \cup {k}
               ELSE UNCHANGED <<title_cache, cache_file, entry_written>>
            /\ UNCHANGED title_errors
    /\ UNCHANGED <<cpc, cruns>>
    /\ UNCHANGED <<coreVars, writeVars, repairVars, laterVars>>

\* the memory of the next process
FreshCacheMemory ==
    /\ title_cache' = <<>>
    /\ futures' = [k \in Titles |-> "none"]
    /\ titles_payload' = {}
    /\ title_errors' = {}
    /\ cpc' = "idle"

\* the process is killed between two statements of the call
CacheCrash ==
    /\ cpc = "pool"
    /\ FreshCacheMemory
    /\ UNCHANGED <<cache_file, cruns, entry_written>>
    /\ UNCHANGED <<coreVars, writeVars, repairVars, laterVars>>

\* the process is killed inside the write_text of persist_title_cache
KilledInPersist(k) ==
    /\ cpc = "pool"
    /\ futures[k] \in FetchResults
    /\ Cacheable(futures[k])
    /\ cache_file' = TornCache
    /\ FreshCacheMemory
    /\ UNCHANGED <<cruns, entry_written>>
    /\ UNCHANGED <<coreVars, writeVars, repairVars, laterVars>>

\* line 768
CollectReturn ==
    /\ cpc = "pool"
    /\ \A k \in Titles : futures[k] \in {"none", "consumed"}
    /\ cpc' = "returned"
    /\ UNCHANGED <<cache_file, title_cache, futures, titles_payload, title_errors, cruns,
                   entry_written>>
    /\ UNCHANGED <<coreVars, writeVars, repairVars, laterVars>>

CacheNext ==
    \/ \E rows \in (SUBSET Titles) \ {{}} : CollectStart(rows)
    \/ \E k \in Titles, result \in FetchResults : FetchDone(k, result)
    \/ \E k \in Titles : ConsumeResult(k)
    \/ CacheCrash
    \/ \E k \in Titles : KilledInPersist(k)
    \/ CollectReturn

InitCache ==
    /\ CoreInit
    /\ OtherInit

SpecCache == InitCache /\ [][CacheNext]_vars

\* ======================================================================
\* persist_movies and finalize_output called from several threads
\* (movies_series_functions.py; persist_people and finalize_people_output of
\* people_functions.py have the same shape with people_persist_lock)
\* ======================================================================
RecordPool == [imdb_id : 1..NumKeys, _id : {1}]
Buffers == UNION {[1..n -> RecordPool] : n \in 0..2}

nonWriteVars == <<storeOther, peopleVars, pauseVars, fetchVars, mergeVars, entryVars, rowsVars,
                  cacheVars, repairVars, laterVars>>

\* persist_movies is entered; an empty buffer returns at once (lines 239-240)
CallPersist(t, buf) ==
    /\ wpc[t] = "idle"
    /\ wcalls < MaxWriteCalls
    /\ wcalls' = wcalls + 1
    /\ wbuffer' = [wbuffer EXCEPT ![t] = buf]
    /\ wpc' = [wpc EXCEPT ![t] = IF buf = <<>> THEN "idle" ELSE "acquire"]
    /\ UNCHANGED <<persist_lock, first_branch, file, first_persisted_item, written>>
    /\ UNCHANGED nonWriteVars

CallFinalize(t) ==
    /\ wpc[t] = "idle"
    /\ wcalls < MaxWriteCalls
    /\ wcalls' = wcalls + 1
    /\ wpc' = [wpc EXCEPT ![t] = "acquire_final"]
    /\ UNCHANGED <<persist_lock, wbuffer, first_branch, file, first_persisted_item, written>>
    /\ UNCHANGED nonWriteVars

\* mutant: the with statement does not wait for the lock
LockFree_Ignored(t) == TRUE

LockFree(t) == persist_lock = 0

\* with persist_lock, path.open("a") as fh:
Acquire(t) ==
    /\ wpc[t] \in {"acquire", "acquire_final"}
    /\ LockFree(t)
    /\ persist_lock' = t
    /\ wpc' = [wpc EXCEPT ![t] = IF wpc[t] = "acquire" THEN "test" ELSE "close"]
    /\ UNCHANGED <<wbuffer, first_branch, wcalls, file, first_persisted_item, written>>
    /\ UNCHANGED nonWriteVars

\* if first_persisted_item: ... else: the separator of fh.write(",\n" + indented)
TestFirst(t) ==
    /\ wpc[t] = "test"
    /\ first_branch' = [first_branch EXCEPT ![t] = first_persisted_item]
    /\ file' = IF first_persisted_item THEN file ELSE file \o <<Tok("comma"), Tok("nl")>>
    /\ wpc' = [wpc EXCEPT ![t] = "write"]
    /\ UNCHANGED <<persist_lock, wbuffer, wcalls, first_persisted_item, written>>
    /\ UNCHANGED nonWriteVars

\* the record reaches the file; first_persisted_item = False in the first branch;
\* after the last record the with block is left
WriteRecord(t) ==
    /\ wpc[t] = "write"
    /\ file' = Append(file, Serialize(Head(wbuffer[t])))
    /\ written' = Append(written, Head(wbuffer[t]))
    /\ first_persisted_item' = IF first_branch[t] THEN FALSE ELSE first_persisted_item
    /\ wbuffer' = [wbuffer EXCEPT ![t] = Tail(wbuffer[t])]
    /\ IF Len(wbuffer[t]) = 1
       THEN /\ wpc' = [wpc EXCEPT ![t] = "idle"]
            /\ persist_lock' = 0
       ELSE /\ wpc' = [wpc EXCEPT ![t] = "test"]
            /\ UNCHANGED persist_lock
    /\ UNCHANGED <<first_branch, wcalls>>
    /\ UNCHANGED nonWriteVars

\* fh.write("\n]\n") and the end of the with block of finalize_output
WriteClose(t) ==
    /\ wpc[t] = "close"
    /\ file' = finalize_output(file)
    /\ wpc' = [wpc EXCEPT ![t] = "idle"]
    /\ persist_lock' = 0
    /\ UNCHANGED <<wbuffer, first_branch, wcalls, first_persisted_item, written>>
    /\ UNCHANGED nonWriteVars

WriteNext ==
    \/ \E t \in Threads, buf \in Buffers : CallPersist(t, buf)
    \/ \E t \in Threads : CallFinalize(t)
    \/ \E t \in Threads : Acquire(t)
    \/ \E t \in Threads : TestFirst(t)
    \/ \E t \in Threads : WriteRecord(t)
    \/ \E t \in Threads : WriteClose(t)

\* the state left by one initialize_output
InitWrite ==
    /\ records = <<>>
    /\ file = initialize_output
    /\ FreshProcess
    /\ RestInit
    /\ OtherInit

SpecWrite == InitWrite /\ [][WriteNext]_vars

\* ======================================================================
\* ensure_json_array_closed on any file content (movies_series_functions.py
\* lines 269-284, people_functions.py lines 294-307: the same function)
\* ======================================================================
FileTokens ==
    {Tok("lb"), Tok("nl"), Tok("rb"), Tok("comma"),
     Serialize([imdb_id |-> 1, _id |-> 1]), TornTok("x"), TornTok("]")}

FileContents == UNION {[1..n -> FileTokens] : n \in 0..MaxTokens}

Repair ==
    /\ repairs < 2
    /\ repairs' = repairs + 1
    /\ file' = ensure_json_array_closed(file)
    /\ UNCHANGED <<content0, first_persisted_item, written>>
    /\ UNCHANGED <<storeOther, peopleVars, pauseVars, fetchVars, mergeVars, entryVars, rowsVars,
                   cacheVars, writeVars, laterVars>>

InitRepair ==
    /\ records = <<>>
    /\ file \in FileContents
    /\ FreshProcess
    /\ RestInit
    /\ CacheInit
    /\ WriteInit
    /\ LaterInit
    /\ content0 = file
    /\ repairs = 0

SpecRepair == InitRepair /\ [][Repair]_vars

\* ======================================================================
\* runs of either stage that reach their last statement
\* ======================================================================
\* the catalog scraper takes its steps when the people stage was never started
CatalogStep ==
    /\ ppc = "idle"
    /\ pruns = 0
    /\ \/ StartRun
       \/ LoadExisting
       \/ InitializeOutput
       \/ RePersist
       \/ Plan
       \/ \E i \in 1..MaxCand : JobStart(i)
       \/ \E i \in 1..MaxCand, outcome \in {"ok", "fail"} : JobFinish(i, outcome)
       \/ Consume
       \/ Finalize
       \/ Crash
       \/ CrashInRePersist
       \/ CrashInConsume

\* the people stage takes its steps when the catalog scraper was never started
PeopleStep ==
    /\ pc = "idle"
    /\ runs = 0
    /\ records = <<>>
    /\ PeopleNext

CloseNext == CatalogStep \/ PeopleStep

SpecClose == Init /\ [][CloseNext]_vars

\* ======================================================================
\* parse_count (movies_series_functions.py lines 69-95)
\* ======================================================================
DigitChars == <<"0", "1", "2", "3", "4", "5", "6", "7", "8", "9">>

IsDigit(c) == \E i \in 1..10 : DigitChars[i] = c

DigitVal(c) == (CHOOSE i \in 1..10 : DigitChars[i] = c) - 1

\* ---- binary64 arithmetic ----
\* A value is int + frac[1]/LimbBase + frac[2]/LimbBase^2 + ..., with NumLimbs
\* limbs; sticky says that the exact value lies above what the limbs hold.
Precision == 53

LimbBits == 10

LimbBase == 1024

NumLimbs == 8

RECURSIVE BitLen(_)
BitLen(n) == IF n = 0 THEN 0 ELSE 1 + BitLen(n \div 2)

\* the first k limbs of r / d, for 0 <= r < d
RECURSIVE FracLimbs(_, _, _)
FracLimbs(r, d, k) ==
    IF k = 0 THEN [limbs |-> <<>>, rem |-> r]
    ELSE LET x == r * LimbBase
             rest == FracLimbs(x % d, d, k - 1)
         IN  [limbs |-> <<x \div d>> \o rest.limbs, rem |-> rest.rem]

\* n / d, cut after NumLimbs limbs
Quotient(n, d) ==
    LET f == FracLimbs(n % d, d, NumLimbs) IN
    [int |-> n \div d, frac |-> f.limbs, sticky |-> f.rem # 0]

\* zero bits between the binary point and the first 1 of the fraction
RECURSIVE LeadingZeros(_)
LeadingZeros(frac) ==
    IF frac = <<>> THEN 0
    ELSE IF Head(frac) = 0 THEN LimbBits + LeadingZeros(Tail(frac))
    ELSE LimbBits - BitLen(Head(frac))

\* the number of fraction bits a significand of Precision bits keeps
KeptBits(x) ==
    IF x.int > 0 THEN Precision - BitLen(x.int) ELSE Precision + LeadingZeros(x.frac)

\* x + amount / LimbBase^j, the carry running towards the integer part
RECURSIVE AddAt(_, _, _)
AddAt(x, j, amount) ==
    IF j = 0 THEN [x EXCEPT !.int = @ + amount]
    ELSE LET v == x.frac[j] + amount IN
         IF v < LimbBase THEN [x EXCEPT !.frac[j] = v]
         ELSE AddAt([x EXCEPT !.frac[j] = v - LimbBase], j - 1, 1)

\* round to nearest, ties to even, at Precision significant bits
RoundNearestEven(x) ==
    IF x.int = 0 /\ \A j \in DOMAIN x.frac : x.frac[j] = 0 THEN [x EXCEPT !.sticky = FALSE]
    ELSE LET p == KeptBits(x)
             a == p \div LimbBits
             b == p % LimbBits
             unit == 2 ^ (LimbBits - b)
             limb == x.frac[a + 1]
             low == limb % unit
             half == unit \div 2
             more == x.sticky \/ \E j \in (a + 2)..Len(x.frac) : x.frac[j] # 0
             odd == IF b > 0 THEN (limb \div unit) % 2 = 1
                    ELSE IF a > 0 THEN x.frac[a] % 2 = 1
                    ELSE x.int % 2 = 1
             up == low > half \/ (low = half /\ (more \/ odd))
             cut == [int |-> x.int,
                     frac |-> [j \in DOMAIN x.frac |->
                                  IF j <= a THEN x.frac[j]
                                  ELSE IF j = a + 1 THEN limb - low
                                  ELSE 0],
                     sticky |-> FALSE]
         IN  IF up THEN AddAt(cut, a + 1, unit) ELSE cut

\* float(text) for the decimal n / d
ToDouble(n, d) == RoundNearestEven(Quotient(n, d))

\* the limbs j.. of frac * c and the carry into limb j - 1
RECURSIVE MulFrom(_, _, _)
MulFrom(frac, j, c) ==
    IF j > Len(frac) THEN [limbs |-> <<>>, carry |-> 0]
    ELSE LET rest == MulFrom(frac, j + 1, c)
             v == frac[j] * c + rest.carry
         IN  [limbs |-> <<v % LimbBase>> \o rest.limbs, carry |-> v \div LimbBase]

\* x * c in binary64, c a small integer: the exact product, rounded once
MulDouble(x, c) ==
    LET r == MulFrom(x.frac, 1, c) IN
    RoundNearestEven([int |-> x.int * c + r.carry, frac |-> r.limbs, sticky |-> FALSE])

\* int(value)
TruncDouble(x) == x.int

\* ---- the text operations ----
upper(c) == IF c = "k" THEN "K" ELSE IF c = "m" THEN "M" ELSE c

RECURSIVE lstrip(_)
lstrip(t) == IF t # <<>> /\ Head(t) = " " THEN lstrip(Tail(t)) ELSE t

RECURSIVE rstrip_text(_)
rstrip_text(t) ==
    IF t # <<>> /\ Last(t) = " " THEN rstrip_text(SubSeq(t, 1, Len(t) - 1)) ELSE t

\* text.strip().replace(",", "").upper()
CleanText(t) ==
    LET kept == SelectSeq(rstrip_text(lstrip(t)), LAMBDA c : c # ",") IN
    [i \in 1..Len(kept) |-> upper(kept[i])]

\* the end of the run of digits that starts at position i
RECURSIVE DigitRunEnd(_, _)
DigitRunEnd(t, i) == IF i < Len(t) /\ IsDigit(t[i + 1]) THEN DigitRunEnd(t, i + 1) ELSE i

RECURSIVE DecimalOf(_)
DecimalOf(digits) ==
    IF digits = <<>> THEN 0
    ELSE 10 * DecimalOf(SubSeq(digits, 1, Len(digits) - 1)) + DigitVal(Last(digits))

RECURSIVE Pow10(_)
Pow10(k) == IF k = 0 THEN 1 ELSE 10 * Pow10(k - 1)

\* re.search(r"(\d+(?:\.\d+)?)([KM]?)", text): the leftmost number and its
\* suffix. The anchored re.match tried first gives the same groups when it
\* matches, since it then starts at the first digit as well.
SearchNumber(t) ==
    LET starts == {i \in 1..Len(t) : IsDigit(t[i])} IN
    IF starts = {} THEN [found |-> FALSE, digits |-> <<>>, scale |-> 0, suffix |-> ""]
    ELSE LET b == CHOOSE i \in starts : \A j \in starts : i <= j
             e1 == DigitRunEnd(t, b)
             frac == e1 + 2 <= Len(t) /\ t[e1 + 1] = "." /\ IsDigit(t[e1 + 2])
             e2 == IF frac THEN DigitRunEnd(t, e1 + 2) ELSE e1
             whole == SubSeq(t, b, e1)
             part == IF frac THEN SubSeq(t, e1 + 2, e2) ELSE <<>>
         IN  [found |-> TRUE,
              digits |-> whole \o part,
              scale |-> Len(part),
              suffix |-> IF e2 < Len(t) /\ t[e2 + 1] \in {"K", "M"} THEN t[e2 + 1] ELSE ""]

Multiplier(suffix) == IF suffix = "M" THEN 1000000 ELSE IF suffix = "K" THEN 1000 ELSE 1

parse_count(t) ==
    IF t = <<>> THEN None
    ELSE LET m == SearchNumber(CleanText(t)) IN
         IF ~m.found THEN None
         ELSE LET value == ToDouble(DecimalOf(m.digits), Pow10(m.scale)) IN
              TruncDouble(IF m.suffix = "" THEN value
                          ELSE MulDouble(value, Multiplier(m.suffix)))

\* ---- the arguments ----
RECURSIVE DecChars(_)
DecChars(n) ==
    IF n < 10 THEN <<DigitChars[n + 1]>> ELSE Append(DecChars(n \div 10), DigitChars[(n % 10) + 1])

Suffixes == {"", "K", "M", "k"}

\* whole, an optional decimal digit (None for none) and a suffix
RenderCount(whole, tenth, suffix) ==
    DecChars(whole)
      \o (IF tenth = None THEN <<>> ELSE <<".", DigitChars[tenth + 1]>>)
      \o (IF suffix = "" THEN <<>> ELSE <<suffix>>)

OtherTexts ==
    {<<>>, <<" ">>, <<"a", "b", "c">>, <<"K">>, <<"n", "/", "a">>,
     <<"2", ",", "3", "4", "5">>, <<" ", "1", ",", "2", "0", "0", " ">>,
     <<"1", ",", "2", "3", "4", ".", "5", "K">>, <<"(", "8", "7", ")">>}

CountTexts ==
    {RenderCount(w, d, x) : w \in 0..MaxWhole, d \in None..9, x \in Suffixes} \cup OtherTexts

ParseCount ==
    /\ count_pc = "call"
    /\ count_pc' = "returned"
    /\ parsed' = parse_count(text)
    /\ UNCHANGED text
    /\ UNCHANGED <<coreVars, cacheVars, writeVars, repairVars, jobVars, resumeVars, probeVars>>

InitCount ==
    /\ CoreInit
    /\ CacheInit
    /\ WriteInit
    /\ RepairInit
    /\ JobInit
    /\ ResumeInit
    /\ ProbeInit
    /\ text \in CountTexts
    /\ parsed = None
    /\ count_pc = "call"

SpecCount == InitCount /\ [][ParseCount]_vars

\* ======================================================================
\* One scraping job: MovieImdb.__init__ (class_movies_series.py lines 28-89)
\* ======================================================================
\* The statements of the try block after get_content, lines 43-76, in their
\* order. keys are the entries of get_attributes_in_dict the statement feeds;
\* guarded says that the statements of the method that can fail lie inside its
\* own try block; request names the page the method may request.
Extractors ==
    << [name |-> "parse_json_ld", keys |-> {}, guarded |-> TRUE, request |-> "none"],
       [name |-> "get_title", keys |-> {"title"}, guarded |-> TRUE, request |-> "none"],
       [name |-> "get_description", keys |-> {"description"}, guarded |-> TRUE, request |-> "none"],
       [name |-> "get_main_actors", keys |-> {"main_actors"}, guarded |-> TRUE, request |-> "none"],
       [name |-> "get_country", keys |-> {"country"}, guarded |-> TRUE, request |-> "none"],
       [name |-> "get_movie_info", keys |-> {}, guarded |-> TRUE, request |-> "none"],
       [name |-> "get_popularity", keys |-> {"popularity"}, guarded |-> TRUE, request |-> "none"],
       [name |-> "get_poster_url", keys |-> {"poster_url"}, guarded |-> TRUE, request |-> "none"],
       [name |-> "get_parental_guide", keys |-> {}, guarded |-> TRUE, request |-> "none"],
       [name |-> "get_duration", keys |-> {"duration"}, guarded |-> TRUE, request |-> "none"],
       [name |-> "get_trailer_url", keys |-> {"trailer_url"}, guarded |-> TRUE, request |-> "none"],
       [name |-> "get_genres", keys |-> {"genres"}, guarded |-> TRUE, request |-> "none"],
       [name |-> "get_rating", keys |-> {"rating"}, guarded |-> TRUE, request |-> "none"],
       [name |-> "get_directors", keys |-> {"directors"}, guarded |-> TRUE, request |-> "none"],
       [name |-> "get_writers", keys |-> {"writers"}, guarded |-> TRUE, request |-> "none"],
       [name |-> "get_year", keys |-> {"year"}, guarded |-> TRUE, request |-> "none"],
       [name |-> "get_imdb_type", keys |-> {"imdb_type"}, guarded |-> TRUE, request |-> "none"],
       [name |-> "get_release_date", keys |-> {"release_date", "release_day", "release_month"},
        guarded |-> TRUE, request |-> "none"],
       [name |-> "get_languages", keys |-> {"languages"}, guarded |-> TRUE, request |-> "none"],
       [name |-> "get_creator", keys |-> {"creator"}, guarded |-> TRUE, request |-> "none"],
       [name |-> "get_content_rating", keys |-> {"content_rating"}, guarded |-> TRUE, request |-> "none"],
       [name |-> "get_rating_count", keys |-> {"rating_count"}, guarded |-> TRUE, request |-> "none"],
       [name |-> "get_reviews_counts",
        keys |-> {"reviews_count_user", "reviews_count_critic", "reviews_count"},
        guarded |-> TRUE, request |-> "none"],
       [name |-> "get_keywords", keys |-> {"keywords"}, guarded |-> TRUE, request |-> "none"],
       [name |-> "get_filming_locations", keys |-> {}, guarded |-> TRUE, request |-> "none"],
       [name |-> "get_added_by_users_to_watchlist", keys |-> {"added_by_users_to_watchlist"},
        guarded |-> TRUE, request |-> "none"],
       [name |-> "get_genre_interests", keys |-> {"genre_interests"}, guarded |-> TRUE, request |-> "none"],
       [name |-> "get_metascore_and_count", keys |-> {"metascore", "metascore_reviews_count"},
        guarded |-> FALSE, request |-> "criticreviews"],
       [name |-> "get_top_rated_rank", keys |-> {"top_rated_rank"}, guarded |-> TRUE, request |-> "none"],
       [name |-> "get_awards_info", keys |-> {"oscars_won", "awards_wins", "awards_nominations"},
        guarded |-> TRUE, request |-> "awards"],
       [name |-> "compute_series_totals", keys |-> {"series_total_seasons", "series_total_episodes"},
        guarded |-> FALSE, request |-> "episodes"] >>

\* the entries set by plain assignments: imdb_link (line 61), imdb_tt_id (line 69)
AssignedKeys == {"imdb_id", "imdb_link"}

AttributeKeys == AssignedKeys \cup UNION {Extractors[i].keys : i \in DOMAIN Extractors}

\* the dictionary of the except branch, lines 81-89
FallbackKeys == {"title", "description", "main_actors", "country", "duration", "popularity", "poster_url"}

FallbackAttributes == [k \in FallbackKeys |-> "none"]

get_attributes_in_dict(present) == [k \in AttributeKeys |-> IF k \in present THEN "value" ELSE "none"]

Failures == Cardinality(failed) + (IF raised_in = 0 THEN 0 ELSE 1)

jobRest == <<coreVars, cacheVars, writeVars, repairVars, countVars, resumeVars, probeVars>>

\* MovieImdb(movieId, imdb_id)
StartJob ==
    /\ job_pc = "idle"
    /\ job_pc' = "fetch"
    /\ UNCHANGED <<extractor, job_attempt, events, got, attributes, failed, raised_in>>
    /\ UNCHANGED jobRest

\* one pass of the loop of get_content: polite_request_pause(), requests.get,
\* and either the return of the parsed page or a sleep and the next pass
FetchMain(success) ==
    /\ job_pc = "fetch"
    /\ job_attempt < FETCH_ATTEMPTS
    /\ events' = events \o <<"pause", "title">>
    /\ IF success
       THEN /\ job_pc' = "extract"
            /\ UNCHANGED job_attempt
       ELSE /\ job_attempt' = job_attempt + 1
            /\ UNCHANGED job_pc
    /\ UNCHANGED <<extractor, got, attributes, failed, raised_in>>
    /\ UNCHANGED jobRest

\* the RuntimeError after the loop, caught at line 79
FetchFailed ==
    /\ job_pc = "fetch"
    /\ job_attempt >= FETCH_ATTEMPTS
    /\ attributes' = FallbackAttributes
    /\ job_pc' = "done"
    /\ UNCHANGED <<extractor, job_attempt, events, got, failed, raised_in>>
    /\ UNCHANGED jobRest

\* the position after extractor i; behind the last one, line 76 builds the
\* attributes
AfterExtractor(i, present) ==
    IF i < Len(Extractors)
    THEN /\ extractor' = i + 1
         /\ UNCHANGED <<job_pc, attributes>>
    ELSE /\ job_pc' = "done"
         /\ UNCHANGED extractor
         /\ attributes' = get_attributes_in_dict(present \cup AssignedKeys)

\* the requests the extractor at position i makes: requests.get with no call
\* of polite_request_pause (lines 964, 1021, 1086)
SecondaryRequests(i, n) == [j \in 1..n |-> Extractors[i].request]

\* extractor i returns its values, after n requests of its own
Extract(i, n) ==
    /\ job_pc = "extract"
    /\ extractor = i
    /\ n > 0 => Extractors[i].request # "none"
    /\ n > 1 => Extractors[i].request = "episodes"
    /\ events' = events \o SecondaryRequests(i, n)
    /\ got' = got \cup Extractors[i].keys
    /\ AfterExtractor(i, got')
    /\ UNCHANGED <<job_attempt, failed, raised_in>>
    /\ UNCHANGED jobRest

\* an error inside the try block of extractor i: its handler returns None
ExtractCaught(i) ==
    /\ job_pc = "extract"
    /\ extractor = i
    /\ Failures < MaxFailures
    /\ failed' = failed \cup {i}
    /\ AfterExtractor(i, got)
    /\ UNCHANGED <<job_attempt, events, got, raised_in>>
    /\ UNCHANGED jobRest

\* an error in the statements of extractor i outside its try block (lines
\* 945-956, 1225-1243): it reaches the handler of line 79
ExtractRaises(i) ==
    /\ job_pc = "extract"
    /\ extractor = i
    /\ ~Extractors[i].guarded
    /\ Failures < MaxFailures
    /\ raised_in' = i
    /\ attributes' = FallbackAttributes
    /\ job_pc' = "done"
    /\ UNCHANGED <<extractor, job_attempt, events, got, failed>>
    /\ UNCHANGED jobRest

JobNext ==
    \/ StartJob
    \/ \E success \in BOOLEAN : FetchMain(success)
    \/ FetchFailed
    \/ \E i \in DOMAIN Extractors, n \in 0..MaxEpisodePages : Extract(i, n)
    \/ \E i \in DOMAIN Extractors : ExtractCaught(i)
    \/ \E i \in DOMAIN Extractors : ExtractRaises(i)

InitJob == CoreInit /\ OtherInit

SpecJob == InitJob /\ [][JobNext]_vars

\* ======================================================================
\* Resumption of the people stage (class_people.py lines 60-255)
\* ======================================================================
\* Each movie of the input file has its own contributors: contributor k of
\* movie m is the person <<m, k>>. A person record is [nm, movie]: the person
\* and the movie of its back-reference.
ResumeMovies == {"ms1", "ms2"}

\* the number of contributors of each movie, at most MaxContributors in all
ResumeItems ==
    {it \in [ResumeMovies -> 0..MaxContributors] : it["ms1"] + it["ms2"] <= MaxContributors}

ContributorsOf(m) == {[nm |-> <<m, k>>, movie |-> m] : k \in 1..res_items[m]}

\* load_existing_people: processed_ids, the movies back-referenced by a person
\* of the file
processed_ids(f) == {p.movie : p \in f}

\* build_rows_to_process without range arguments: the movies of the input
\* file, in file order, that are not in processed_movies
ResumeRows(done) ==
    SelectSeq(<<"ms1", "ms2">>, LAMBDA m : m \notin done)

resumeRest == <<coreVars, cacheVars, writeVars, repairVars, countVars, jobVars, probeVars>>

\* lines 66-104: load the file, rewrite it as a snapshot, build the queue and
\* collect the payloads of the queued titles
ResumeStart ==
    /\ res_pc = "idle"
    /\ res_runs < MaxResumeRuns
    /\ res_runs' = res_runs + 1
    /\ res_map' = res_file
    /\ res_rows' = ResumeRows(processed_ids(res_file))
    /\ res_next' = 0
    /\ res_pending' = 0
    /\ res_pc' = "merge"
    /\ UNCHANGED <<res_items, res_file, res_partial>>
    /\ UNCHANGED resumeRest

\* lines 161-233 for one contributor: the entry is created with its
\* back-reference and queued; queue_person_for_flush writes a snapshot when
\* PEOPLE_SAVE_BATCH_SIZE names are pending
MergeContributor ==
    /\ res_pc = "merge"
    /\ res_rows # <<>>
    /\ res_next < res_items[Head(res_rows)]
    /\ LET person == [nm |-> <<Head(res_rows), res_next + 1>>, movie |-> Head(res_rows)] IN
       /\ res_map' = res_map \cup {person}
       /\ res_next' = res_next + 1
       /\ IF res_pending + 1 >= PEOPLE_SAVE_BATCH_SIZE
          THEN /\ res_file' = res_map'
               /\ res_pending' = 0
          ELSE /\ res_pending' = res_pending + 1
               /\ UNCHANGED res_file
    /\ UNCHANGED <<res_pc, res_items, res_rows, res_runs, res_partial>>
    /\ UNCHANGED resumeRest

\* the loop of line 161 takes the next title
NextTitle ==
    /\ res_pc = "merge"
    /\ res_rows # <<>>
    /\ res_next >= res_items[Head(res_rows)]
    /\ res_rows' = Tail(res_rows)
    /\ res_next' = 0
    /\ UNCHANGED <<res_pc, res_items, res_file, res_map, res_pending, res_runs, res_partial>>
    /\ UNCHANGED resumeRest

\* lines 235-255: flush_pending_people writes a snapshot if names are pending
ResumeFinish ==
    /\ res_pc = "merge"
    /\ res_rows = <<>>
    /\ res_file' = IF res_pending > 0 THEN res_map ELSE res_file
    /\ res_pending' = 0
    /\ res_pc' = "done"
    /\ UNCHANGED <<res_items, res_map, res_rows, res_next, res_runs, res_partial>>
    /\ UNCHANGED resumeRest

\* titles of which the file holds some contributors and not all
PartialTitles(f) ==
    {m \in ResumeMovies : ContributorsOf(m) \cap f # {} /\ ~(ContributorsOf(m) \subseteq f)}

\* the process is killed between two snapshots; its memory is lost
ResumeKill ==
    /\ res_pc = "merge"
    /\ res_pc' = "idle"
    /\ res_map' = {}
    /\ res_rows' = <<>>
    /\ res_next' = 0
    /\ res_pending' = 0
    /\ res_partial' = res_partial \cup PartialTitles(res_file)
    /\ UNCHANGED <<res_items, res_file, res_runs>>
    /\ UNCHANGED resumeRest

\* a later run is started on the file the completed run left
ResumeAgain ==
    /\ res_pc = "done"
    /\ res_runs < MaxResumeRuns
    /\ res_pc' = "idle"
    /\ UNCHANGED <<res_items, res_file, res_map, res_rows, res_next, res_pending, res_runs,
                   res_partial>>
    /\ UNCHANGED resumeRest

ResumeNext ==
    \/ ResumeStart
    \/ MergeContributor
    \/ NextTitle
    \/ ResumeFinish
    \/ ResumeKill
    \/ ResumeAgain

InitResume ==
    /\ CoreInit
    /\ CacheInit
    /\ WriteInit
    /\ RepairInit
    /\ CountInit
    /\ JobInit
    /\ ProbeInit
    /\ res_pc = "idle"
    /\ res_items \in ResumeItems
    /\ res_file = {}
    /\ res_map = {}
    /\ res_rows = <<>>
    /\ res_next = 0
    /\ res_pending = 0
    /\ res_runs = 0
    /\ res_partial = {}

SpecResume == InitResume /\ [][ResumeNext]_vars

\* ======================================================================
\* Season probing: the loop of MovieImdb.get_total_seasons (lines 1152-1163),
\* reached when neither JSON-LD nor the episodes page gives a season count
\* ======================================================================
\* for s in range(1, 30): the first value the loop does not take
ProbeRangeEnd == 30

\* if consecutive_empty >= 2: break
EmptyLimit == 2

\* Seasons 1..last have episodes, except len seasons from gap on.
EpisodeMaps ==
    {{s \in 1..last : ~(gap <= s /\ s < gap + len)} :
        last \in 0..MaxSeasons, gap \in 1..MaxSeasons, len \in 0..EmptyLimit}

\* count_episodes_in_season(s): an episodes page that cannot be fetched or
\* parsed counts as 0 (lines 1177-1194); only the sign of the count is used
count_episodes_in_season(s) == IF s \in has_episodes THEN 1 ELSE 0

probeRest == <<coreVars, cacheVars, writeVars, repairVars, countVars, jobVars, resumeVars>>

\* lines 1152-1153
StartProbing ==
    /\ probe_pc = "idle"
    /\ probe_pc' = "loop"
    /\ UNCHANGED <<has_episodes, season, last_with_eps, consecutive_empty, probed, total_seasons>>
    /\ UNCHANGED probeRest

\* one pass of the loop body, lines 1155-1162
ProbeSeason ==
    /\ probe_pc = "loop"
    /\ season < ProbeRangeEnd
    /\ probed' = Append(probed, season)
    /\ IF count_episodes_in_season(season) > 0
       THEN /\ last_with_eps' = season
            /\ consecutive_empty' = 0
            /\ season' = season + 1
            /\ UNCHANGED probe_pc
       ELSE /\ consecutive_empty' = consecutive_empty + 1
            /\ UNCHANGED last_with_eps
            /\ IF consecutive_empty' >= EmptyLimit
               THEN /\ probe_pc' = "break"
                    /\ UNCHANGED season
               ELSE /\ season' = season + 1
                    /\ UNCHANGED probe_pc
    /\ UNCHANGED <<has_episodes, total_seasons>>
    /\ UNCHANGED probeRest

\* return last_with_eps or None, line 1163
ProbeReturn ==
    /\ \/ probe_pc = "break"
       \/ probe_pc = "loop" /\ season >= ProbeRangeEnd
    /\ total_seasons' = IF last_with_eps = 0 THEN None ELSE last_with_eps
    /\ probe_pc' = "returned"
    /\ UNCHANGED <<has_episodes, season, last_with_eps, consecutive_empty, probed>>
    /\ UNCHANGED probeRest

ProbeNext ==
    \/ StartProbing
    \/ ProbeSeason
    \/ ProbeReturn

InitProbe ==
    /\ CoreInit
    /\ CacheInit
    /\ WriteInit
    /\ RepairInit
    /\ CountInit
    /\ JobInit
    /\ ResumeInit
    /\ probe_pc = "idle"
    /\ has_episodes \in EpisodeMaps
    /\ season = 1
    /\ last_with_eps = 0
    /\ consecutive_empty = 0
    /\ probed = <<>>
    /\ total_seasons = None

\* the loop body and the return are ordinary code: every enabled step is taken
SpecProbe == InitProbe /\ [][ProbeNext]_vars /\ WF_vars(ProbeNext)

\* ---- properties of the primary store and of a run ----

ParsedStore(content) == json_loads_array(ensure_json_array_closed(content))

StoreKeys(content) == {rec.imdb_id : rec \in Range(StoreRecords(content))} \ {0}

\* C1: a store whose writer stopped after initialize_output or after a whole
\* persist_movies call is, once ensure_json_array_closed has run, a closed
\* JSON array holding exactly the records written, in write order.
C1_ValidUnderInterruption ==
    (file # <<>> /\ ~torn) =>
        LET closed == ParsedStore(file)
            loaded == json_loads_array(file)
        IN  /\ closed.ok
            /\ closed.value = written
            /\ pc = "load" => (loaded.ok /\ loaded.value = written)

\* a process that died with the array open and two records in it was restarted
C1_Witness ==
    /\ pc = "load"
    /\ repaired
    /\ ~torn
    /\ Len(written) >= 2
    /\ json_loads_array(file).value = written

\* C3: every record the store held when a process started is still in the
\* (repaired) store in every later state.
C3_AppendOnlyCrashSafe ==
    at_start \subseteq Range(ParsedStore(file).value)

\* C4: once the startup load has found the repaired store unreadable, the
\* process writes nothing more to it.
C4_CorruptionIsFatal ==
    [][load_error => file' = file]_vars

C7_FailedJobAddsNoRecord ==
    pc = "done" => new_movies_saved = Cardinality({i \in 1..Len(job) : job[i] = "ok"})

\* C11: when the result loop has been left by an exception, the tasks that
\* had not started never run, every task that was executing has finished, and
\* the record of each of those that was scraped is in the finalized store.
C11_InFlightPersisted ==
    pc = "aborted" =>
        /\ \A i \in 1..Len(job) : job[i] \in {"ok", "fail", "cancelled"}
        /\ \A i \in in_flight :
               /\ job[i] \in {"ok", "fail"}
               /\ job[i] = "ok" => movies_to_process[i][2] \in StoreKeys(file)

\* C13: no two records of the store share an _id, and a record that is
\* appended gets an _id above every _id given by this or an earlier process.
C13_IdsNeverReused ==
    [][/\ \A i, j \in 1..Len(StoreRecords(file')) :
            i # j => StoreRecords(file')[i]._id # StoreRecords(file')[j]._id
       /\ new_movies_saved' = new_movies_saved + 1 => next_numeric_id > max_assigned]_vars

\* C10: the consumer receives the results in the order the workers finished.
C10_CompletionOrderDelivery ==
    \A k \in 1..Len(delivered_order) : delivered_order[k] = completed_order[k]

\* ---- properties of the fetcher ----

\* C12: a fetch makes at most 5 requests; it returns at the first response
\* classified as success and makes no request after it; it raises only after
\* 5 responses none of which was a success; and it always returns or raises.
C12_BoundedRetry ==
    /\ [](/\ Len(classes) <= 5
          /\ \A k \in 1..(Len(classes) - 1) : classes[k] # "success"
          /\ fetch_pc = "returned" <=> (classes # <<>> /\ Last(classes) = "success")
          /\ fetch_pc = "raised" => (Len(classes) = 5 /\ Last(classes) # "success"))
    /\ <>(fetch_pc \in {"returned", "raised"})

\* the fetch raised after a throttled, a blocked and an invalid response among its five
C12_Witness ==
    /\ fetch_pc = "raised"
    /\ {"throttled", "blocked", "invalid"} \subseteq Range(classes)

\* ---- properties of merge_person_entry ----

\* C14: merging incoming and then any other payload b into x0 gives the same
\* roles and the same credits (ids and titles) as merging b and then incoming.
C14_MergeCommutes ==
    \A b \in Entries :
        LET ab == merge_person_entry(merge_person_entry(x0, incoming), b)
            ba == merge_person_entry(merge_person_entry(x0, b), incoming)
        IN ab.role = ba.role /\ ab.movie = ba.movie

\* C15: after two calls with the same incoming payload the target is what it
\* was after the first call.
C15_MergeIdempotent ==
    /\ merges >= 1 => merge_person_entry(target, incoming) = target
    /\ merges = 2 => target = merge_person_entry(x0, incoming)

\* the second call found a filled name, a role and a credit it had itself added
C15_Witness ==
    /\ merges = 2
    /\ x0.name = 0 /\ target.name # 0
    /\ Len(target.role) > Len(x0.role)
    /\ Len(target.movie) > Len(x0.movie)
    /\ x0.movie # <<>>

\* ---- properties of a person record ----

NoRepeat(seq) == \A i, j \in 1..Len(seq) : i # j => seq[i] # seq[j]

NoRepeatedWork(movies) ==
    \A i, j \in 1..Len(movies) : i # j => movies[i]._id # movies[j]._id

\* C16: the entry of a person, in memory and in the store, has no role twice
\* and no two credits with the same work id, and the roles and credits of the
\* stored record are in sorted order.
C16_DeduplicatedAndSorted ==
    /\ NoRepeat(entry.role) /\ NoRepeatedWork(entry.movie)
    /\ NoRepeat(stored.role) /\ NoRepeatedWork(stored.movie)
    /\ \A i, j \in 1..Len(stored.role) :
           i < j => RoleRank(stored.role[i]) < RoleRank(stored.role[j])
    /\ \A i, j \in 1..Len(stored.movie) :
           i < j => MovieBefore(stored.movie[i], stored.movie[j])

\* a snapshot holds in sorted order the two roles and the two credits that the
\* entry in memory holds in another order
C16_Witness ==
    /\ epc = "loop"
    /\ Len(stored.role) = 2 /\ entry.role # stored.role
    /\ Len(stored.movie) = 2 /\ entry.movie # stored.movie
    /\ Range(entry.movie) = Range(stored.movie)

\* C17: a filled name or biography of a person keeps its value in every step,
\* in memory and in the store, so a value is taken only for an empty field;
\* merge_person_entry gives the target's scalar unless it is empty.
C17_FillIfAbsent ==
    [][/\ (entry.present /\ entry'.present) =>
            /\ entry.name # 0 => entry'.name = entry.name
            /\ entry.biography # 0 => entry'.biography = entry.biography
       /\ (stored.present /\ stored'.present) =>
            /\ stored.name # 0 => stored'.name = stored.name
            /\ stored.biography # 0 => stored'.biography = stored.biography
       /\ \A t, i \in ScalarValues :
            merge_person_entry([EmptyEntry EXCEPT !.name = t],
                               [EmptyEntry EXCEPT !.name = i]).name
                = IF t # 0 THEN t ELSE i]_vars

\* a filled name was offered another value and kept its own, while the empty
\* biography of the loaded record was filled
C17_Witness ==
    /\ offered
    /\ stored.present /\ entry.present
    /\ entry.name # 0
    /\ entry.name = stored.name
    /\ stored.biography = 0 /\ entry.biography # 0

\* ---- properties of the people store ----

\* C2: wherever the writer stops between initialize_people_output and
\* finalize_people_output, ensure_people_json_closed leaves a closed document
\* that parses and holds every person written so far.
C2_PeopleClosableByRepair ==
    ppc = "snap_write" =>
        LET doc == json_loads_people(ensure_people_json_closed(people_file)) IN
        /\ doc.ok
        /\ Range(people_written) \subseteq Range(doc.value)

\* ---- properties of the politeness scheduler ----

\* C8: two consecutive assignments of last_request_ts are never closer than
\* the lower bound of REQUEST_DELAY_RANGE.
C8_MinimumSpacing ==
    last_gap >= REQUEST_DELAY_MIN

\* C9: request_counter counts the reservations made, a thread sleeps the
\* cooldown exactly when its reservation was a REQUEST_COOLDOWN_EVERY-th one,
\* and it does so without holding request_lock.
C9_CooldownEveryKth ==
    /\ request_lock = 0 => request_counter = reservations
    /\ \A t \in Threads :
           /\ tpc[t] = "cooldown" =>
                  /\ due[t]
                  /\ request_lock # t
                  /\ cooldown[t] >= REQUEST_COOLDOWN_MIN
           /\ tpc[t] = "idle" => slept[t] = due[t]

\* a thread made the 40th reservation and is in its cooldown while another
\* thread has made the 41st
C9_Witness ==
    \E t \in Threads :
        /\ tpc[t] = "cooldown"
        /\ due[t]
        /\ request_counter = REQUEST_COOLDOWN_EVERY + 1
        /\ reservations = REQUEST_COOLDOWN_EVERY + 1

\* ----------------------------------------------------------------------
\* C18: planner de-duplication. Without a range filter the plan is exactly the
\* candidates with no persisted key, first occurrence of each key only, in
\* candidate-list order; with a range filter the plan still holds no persisted
\* key and no key twice. Stated for build_rows_to_process and for the planning
\* loop of the catalog scraper.
\* ----------------------------------------------------------------------
NoRangeFilter ==
    /\ start_movie_index = None
    /\ end_movie_index = None
    /\ start_movie_id = ""
    /\ end_movie_id = ""

PlannedPositions == {rows_to_process[i].pos : i \in 1..Len(rows_to_process)}

C18_PlannerDeduplication ==
    /\ rpc = "returned" =>
         /\ \A i \in 1..Len(rows_to_process) :
              LET r == rows_to_process[i] IN
              /\ r.pos \in 1..Len(items)
              /\ items[r.pos]._id = r._id
              /\ items[r.pos].imdb_id = r.imdb_id
              /\ key_candidates(r) \cap processed_movies = {}
         /\ \A i, j \in 1..Len(rows_to_process) :
              i < j => /\ rows_to_process[i].pos < rows_to_process[j].pos
                       /\ key_candidates(rows_to_process[i])
                            \cap key_candidates(rows_to_process[j]) = {}
         /\ NoRangeFilter =>
              \A p \in (1..Len(items)) \ PlannedPositions :
                 \/ key_candidates(items[p]) \cap processed_movies # {}
                 \/ \E i \in 1..Len(rows_to_process) :
                      /\ rows_to_process[i].pos < p
                      /\ key_candidates(rows_to_process[i]) \cap key_candidates(items[p]) # {}
    /\ pc = "pool" =>
         /\ \A i \in 1..Len(movies_to_process) :
              LET t == movies_to_process[i] IN
              /\ t[1] \in 1..Len(records)
              /\ t[2] = parse_imdb_numeric(records[t[1]])
              /\ t[2] # 0
              /\ t[2] \notin existing_ids
         /\ \A i, j \in 1..Len(movies_to_process) :
              i < j => /\ movies_to_process[i][1] < movies_to_process[j][1]
                       /\ movies_to_process[i][2] # movies_to_process[j][2]
         /\ \A p \in (1..Len(records)) \ {movies_to_process[i][1] : i \in 1..Len(movies_to_process)} :
              \/ parse_imdb_numeric(records[p]) = 0
              \/ parse_imdb_numeric(records[p]) \in existing_ids
              \/ \E i \in 1..Len(movies_to_process) :
                   /\ movies_to_process[i][1] < p
                   /\ movies_to_process[i][2] = parse_imdb_numeric(records[p])

\* a filtered call that returned a row and skipped a processed one
C18_Witness ==
    /\ rpc = "returned"
    /\ ~NoRangeFilter
    /\ rows_to_process # <<>>
    /\ \E p \in 1..Len(items) : key_candidates(items[p]) \cap processed_movies # {}

\* ----------------------------------------------------------------------
\* C19: with start_movie_index = s and end_movie_index = e the call returns
\* exactly the not-yet-processed rows whose 1-based position in the input lies
\* in [s, e], whatever rows before position s were processed or duplicated.
\* ----------------------------------------------------------------------
\* positions of the rows an unfiltered call returns
UnprocessedPositions ==
    LET queued == QueueRows(items, 1, processed_movies, <<>>) IN
    {queued[i].pos : i \in 1..Len(queued)}

C19_PositionalRange ==
    (/\ rpc = "returned"
     /\ start_movie_index >= 1
     /\ end_movie_index >= start_movie_index
     /\ start_movie_id = ""
     /\ end_movie_id = "")
    => PlannedPositions =
         {p \in UnprocessedPositions : start_movie_index <= p /\ p <= end_movie_index}

\* ----------------------------------------------------------------------
\* C20: with start_movie_id supplied no returned row precedes the row with that
\* _id in input order, with end_movie_id supplied no returned row follows it,
\* also when the named row is already processed.
\* ----------------------------------------------------------------------
PositionsOf(movie_id) == {p \in 1..Len(items) : items[p]._id = movie_id}

C20_KeyRange ==
    rpc = "returned" =>
      /\ (start_movie_id # "" /\ PositionsOf(start_movie_id) # {}) =>
           \A p \in PlannedPositions : \E q \in PositionsOf(start_movie_id) : q <= p
      /\ (end_movie_id # "" /\ PositionsOf(end_movie_id) # {}) =>
           \A p \in PlannedPositions : \E q \in PositionsOf(end_movie_id) : p <= q

\* ----------------------------------------------------------------------
\* C21: once the result fetched for a key has been consumed the key has an
\* entry in the cache file, and no later call, in this process or after an
\* abrupt termination, submits a fetch for a key that has one.
\* ----------------------------------------------------------------------
C21_CachePreventsRefetch ==
    [][/\ \A k \in entry_written' : k \in DOMAIN load_title_cache(cache_file')
       /\ \A k \in Titles :
            (futures[k] # "pending" /\ futures'[k] = "pending") => k \notin entry_written]_vars

\* ----------------------------------------------------------------------
\* C27: a cache entry is stored only for a title whose page was fetched; a
\* title whose fetch exhausted its retries gets no entry and is recorded in
\* the title errors.
\* ----------------------------------------------------------------------
C27_CacheHoldsComputedOnly ==
    [][\A k \in Titles :
         (futures[k] = "empty" /\ futures'[k] = "consumed") =>
            /\ k \in title_errors'
            /\ k \notin DOMAIN load_title_cache(cache_file')]_vars

\* ----------------------------------------------------------------------
\* C22: whatever the interleaving of concurrent persist_movies and
\* finalize_output calls after one initialize_output, once no call holds the
\* lock the file is the opening bracket followed by the records written, whole
\* and in write order, the first with no separator and each later one preceded
\* by one comma (the closing delimiters of finalize_output set aside), and
\* first_persisted_item is true exactly when no record has been written.
\* ----------------------------------------------------------------------
WithoutClosers(content) == SelectSeq(NoWS(content), LAMBDA tok : tok.t # "rb")

C22_WritesSerialized ==
    persist_lock = 0 =>
        LET s == WithoutClosers(file) IN
        /\ Len(s) >= 1
        /\ s[1].t = "lb"
        /\ ItemsOK(SubSeq(s, 2, Len(s)))
        /\ Items(SubSeq(s, 2, Len(s))) = written
        /\ first_persisted_item <=> (written = <<>>)

\* two records were written, finalize_output has run, and a thread is about to
\* write again
C22_Witness ==
    /\ persist_lock = 0
    /\ Len(written) = 2
    /\ \E i \in 1..Len(file) : file[i].t = "rb"
    /\ \E t \in Threads : wpc[t] = "acquire"

\* ----------------------------------------------------------------------
\* C23: for any file content, repairing twice gives the file repairing once
\* gives, a file that already ends with the closing delimiter is left
\* unchanged, and every record present before the repair is present after it.
\* ----------------------------------------------------------------------
C23_RepairIdempotent ==
    /\ repairs >= 1 =>
         /\ file = ensure_json_array_closed(content0)
         /\ ensure_json_array_closed(file) = file
         /\ endswith(rstrip(content0), "]") => file = content0
         /\ StoreRecords(file) = StoreRecords(content0)
    /\ repairs = 0 => file = content0

\* an open array with a record and trailing white space was repaired twice
C23_Witness ==
    /\ repairs = 2
    /\ file # content0
    /\ StoreRecords(content0) # <<>>
    /\ content0 # rstrip(content0)

\* ----------------------------------------------------------------------
\* C24: a run that reaches its end, with or without jobs, records or failed
\* jobs, leaves its store file a valid, closed document with the closing
\* delimiter written once: the primary store after the catalog scraper, the
\* secondary store after the people stage.
\* ----------------------------------------------------------------------
CountTok(content, kind) == Cardinality({i \in 1..Len(content) : content[i].t = kind})

C24_CompletionClosesStores ==
    /\ pc = "done" =>
         /\ json_loads_array(file).ok
         /\ CountTok(file, "rb") = 1
         /\ CountTok(file, "torn") = 0
    /\ ppc = "done" =>
         /\ json_loads_people(people_file).ok
         /\ CountTok(people_file, "rb") = 1
         /\ CountTok(people_file, "rbrace") = 1

\* a later run of the catalog scraper, started on a store that held a record,
\* ended after one of its jobs failed
C24_Witness ==
    /\ pc = "done"
    /\ runs >= 2
    /\ \E i \in 1..Len(job) : job[i] = "fail"
    /\ StoreRecords(file) # <<>>

\* ----------------------------------------------------------------------
\* C25: parse_count maps a count string (digits with thousands separators, an
\* optional decimal part and an optional K or M suffix) to the integer it
\* denotes, and returns None for an empty string or a string with no number.
\* ----------------------------------------------------------------------
\* the string is nothing but a number and its suffix, and denotes an integer
IsCountString(t) ==
    LET c == CleanText(t)
        m == SearchNumber(c)
    IN  /\ m.found
        /\ Len(c) = Len(m.digits) + (IF m.scale > 0 THEN 1 ELSE 0)
                      + (IF m.suffix = "" THEN 0 ELSE 1)
        /\ (DecimalOf(m.digits) * Multiplier(m.suffix)) % Pow10(m.scale) = 0

Denoted(t) ==
    LET m == SearchNumber(CleanText(t)) IN
    (DecimalOf(m.digits) * Multiplier(m.suffix)) \div Pow10(m.scale)

\* C25: afterwards the value returned is the denoted integer, or None
C25_CountNormalization ==
    count_pc = "returned" =>
        /\ IsCountString(text) => parsed = Denoted(text)
        /\ (\A i \in 1..Len(text) : ~IsDigit(text[i])) => parsed = None

\* ----------------------------------------------------------------------
\* C26: every HTTP request of the pipeline, the fetch attempts for the main
\* page and the secondary fetches of critic reviews, awards and episode pages,
\* is immediately preceded by its own polite_request_pause reservation.
\* ----------------------------------------------------------------------
C26_EveryRequestGated ==
    \A i \in DOMAIN events :
        events[i] # "pause" => (i > 1 /\ events[i - 1] = "pause")

\* ----------------------------------------------------------------------
\* C29: when the main page was fetched and one field extractor fails, the
\* record of the job still has its external reference and the value of every
\* other field; only the fields of the failing extractor are absent.
\* ----------------------------------------------------------------------
FailingKeys ==
    UNION {Extractors[i].keys : i \in failed \cup (IF raised_in = 0 THEN {} ELSE {raised_in})}

\* C29: a finished job with one failure keeps its reference and the other fields
C29_ExtractorsIndependent ==
    (job_pc = "done" /\ Failures = 1) =>
        /\ "imdb_id" \in DOMAIN attributes
        /\ attributes["imdb_id"] = "value"
        /\ \A k \in AttributeKeys \ FailingKeys :
              k \in DOMAIN attributes /\ attributes[k] = "value"

\* ----------------------------------------------------------------------
\* C28: if a run is killed after a people snapshot that holds some but not all
\* contributors of a title, then once the next run has completed every
\* contributor of that title's payload has a person record with a
\* back-reference to the title.
\* ----------------------------------------------------------------------
C28_ResumeCompletesTitle ==
    res_pc = "done" =>
        \A m \in res_partial : ContributorsOf(m) \subseteq res_file

\* ----------------------------------------------------------------------
\* C30: without a published season count, seasons 1, 2, 3, ... are requested in
\* order; probing stops as soon as two consecutive seasons have no episodes or
\* 30 probes were made, it always terminates, and it reports the highest
\* probed season that had episodes, None when there is none.
\* ----------------------------------------------------------------------
ProbeCap == 30

HighestWithEpisodes ==
    LET hit == {probed[i] : i \in DOMAIN probed} \cap has_episodes IN
    IF hit = {} THEN None ELSE CHOOSE s \in hit : \A t \in hit : t <= s

C30_ProbingInOrder == \A i \in DOMAIN probed : probed[i] = i

C30_ProbingStops ==
    /\ probe_pc \in {"loop", "break"} => Len(probed) <= ProbeCap
    /\ probe_pc = "returned" =>
          /\ consecutive_empty >= EmptyLimit \/ Len(probed) = ProbeCap
          /\ total_seasons = HighestWithEpisodes

\* C30: order, stop conditions and value hold throughout, and probing returns
C30_BoundedProbing ==
    /\ [](C30_ProbingInOrder /\ C30_ProbingStops)
    /\ <>(probe_pc = "returned")

====
